---- MODULE Spec2Model ----
(***************************************************************************)
(* A model of paxhtml's element tree, normalisation and renderer, and of   *)
(* its attribute-string parser and markup parser.                          *)
(*                                                                         *)
(* A Rust string is a sequence of one-character strings, so that escaping, *)
(* line splitting and the written output are computed character by         *)
(* character.  Option<T> is a sequence of length 0 (None) or 1 (Some).     *)
(***************************************************************************)
EXTENDS Integers, Sequences, FiniteSets, TLC

VARIABLES
    pc,       \* "parse", "parsed", "build", "document", "written" or "failed":
              \* where the caller is
    src,      \* the string the caller supplies: a text, raw html, an attribute
              \* value, or the input of a parser
    pool,     \* the Elements the caller has built and not yet handed over
    input,    \* the Elements handed to Document::new
    doc,      \* Document.children: the RenderElements of the document
    writer,   \* the bytes written to the writer so far
    outcome,  \* "none", "Ok", or the error the last fallible call returned
    parsed    \* what the last parse of src returned, if there was one

vars == <<pc, src, pool, input, doc, writer, outcome, parsed>>

----------------------------------------------------------------------------
(* Bounds of the model. *)

\* The most nodes (of any variant) the caller builds in the tree runs.
MaxNodes == 3

\* The most nodes the caller builds in the string runs.
MaxStrNodes == 2

\* The longest caller-supplied string in the string runs.
MaxStrLen == 2

\* The most pieces of markup the caller's markup is put together from.
MaxMarkupTokens == 4

\* The longest attribute string given to Attribute::parse_from_str.
MaxAttrLen == 6

----------------------------------------------------------------------------
(* Characters and strings. *)

NL == "\n"
CR == "\r"
QUOT == "\""
APOS == "'"
AMP == "&"
LT == "<"
GT == ">"
SP == " "
TAB == "\t"
EQ == "="
HYPHEN == "-"
UNDERSCORE == "_"

\* The character U+00E9, a letter outside ASCII.
EACUTE == "U+00E9"

\* The ASCII letters and digits.
AsciiLower ==
    {"a", "b", "c", "d", "e", "f", "g", "h", "i", "j", "k", "l", "m",
     "n", "o", "p", "q", "r", "s", "t", "u", "v", "w", "x", "y", "z"}
AsciiUpper ==
    {"A", "B", "C", "D", "E", "F", "G", "H", "I", "J", "K", "L", "M",
     "N", "O", "P", "Q", "R", "S", "T", "U", "V", "W", "X", "Y", "Z"}
AsciiDigits == {"0", "1", "2", "3", "4", "5", "6", "7", "8", "9"}

\* char::is_whitespace, on the characters of the model.
is_whitespace(c) == c \in {SP, TAB, NL, CR}

\* char::is_alphabetic and char::is_alphanumeric, on the characters of the
\* model: they follow Unicode, so a letter outside ASCII is one.
is_alphabetic(c) == c \in AsciiLower \cup AsciiUpper \cup {EACUTE}
is_alphanumeric(c) == is_alphabetic(c) \/ c \in AsciiDigits

RECURSIVE Concat(_)
\* The concatenation of a sequence of strings.
Concat(ss) == IF ss = <<>> THEN <<>> ELSE Head(ss) \o Concat(Tail(ss))

\* All strings over alphabet of length at most n.
StringsUpTo(alphabet, n) == UNION {[1..k -> alphabet] : k \in 0..n}

----------------------------------------------------------------------------
(* The data model. *)

\* Attribute { key, value: Option<String> }
Attribute(key, value) == [key |-> key, value |-> value]

\* enum Element
Empty == [ty |-> "Element", kind |-> "Empty"]
Tag(name, attributes, children, void) ==
    [ty |-> "Element", kind |-> "Tag", name |-> name, attributes |-> attributes,
     children |-> children, void |-> void]
Fragment(children) == [ty |-> "Element", kind |-> "Fragment", children |-> children]
Text(text) == [ty |-> "Element", kind |-> "Text", text |-> text]
Raw(html) == [ty |-> "Element", kind |-> "Raw", html |-> html]

\* enum RenderElement
RenderTag(name, attributes, children, void) ==
    [ty |-> "RenderElement", kind |-> "Tag", name |-> name,
     attributes |-> attributes, children |-> children, void |-> void]
RenderText(text) == [ty |-> "RenderElement", kind |-> "Text", text |-> text]
RenderRaw(html) == [ty |-> "RenderElement", kind |-> "Raw", html |-> html]

RECURSIVE NodeCount(_)
\* The number of nodes of a list of trees (Elements or RenderElements).
NodeCount(elements) ==
    IF elements = <<>> THEN 0
    ELSE LET e == Head(elements) IN
         1 + (IF e.kind \in {"Tag", "Fragment"} THEN NodeCount(e.children) ELSE 0)
           + NodeCount(Tail(elements))

\* The last k elements of a list, and the list without them.
LastK(s, k) == SubSeq(s, Len(s) - k + 1, Len(s))
DropLastK(s, k) == SubSeq(s, 1, Len(s) - k)

----------------------------------------------------------------------------
(* Element construction: element.rs, builder.rs. *)

\* from_iter as it would be if a single element were wrapped like any other
\* non-empty list.
from_iter_wrapping_one(iter) ==
    IF iter = <<>> THEN Empty ELSE Fragment(iter)

\* Element::from_iter
from_iter(iter) ==
    LET children == iter IN
    IF children = <<>> THEN Empty
    ELSE IF Len(children) = 1 THEN children[1]
    ELSE Fragment(children)

\* impl IntoElement for [Element; N]
array_into_element(self) ==
    LET N == Len(self) IN
    IF N = 0 THEN Empty
    ELSE IF N = 1 THEN self[1]
    ELSE Fragment(self)

\* The children a tag keeps of the element its closure is given (builder.rs).
TagChildren(children) ==
    IF children.kind = "Fragment" THEN children.children
    ELSE IF children.kind = "Empty" THEN <<>>
    ELSE <<children>>

\* Builder::tag(name, attributes, void)(children)
tag(name, attributes, void, children) ==
    Tag(name, attributes, TagChildren(array_into_element(children)), void)

----------------------------------------------------------------------------
(* Normalisation: RenderElement::from_elements. *)

\* The guard as it would be if every whitespace-only text were dropped.
IsDroppedTextTrimmed(text) ==
    \A i \in 1..Len(text) : text[i] \in {NL, CR, SP, "\t"}

\* The guard of the match arm that drops a text.
IsDroppedText(text) == text = <<NL>>

\* The Text arms as they would be if one leading newline were stripped from
\* every text and the text dropped when nothing is left.
TextArmsStrippingNewline(text) ==
    IF text # <<>> /\ Head(text) = NL
    THEN (IF Tail(text) = <<>> THEN <<>> ELSE <<RenderText(Tail(text))>>)
    ELSE <<RenderText(text)>>

\* The two Text arms of the match: what a text adds to the result.
TextArms(text) == IF IsDroppedText(text) THEN <<>> ELSE <<RenderText(text)>>

RECURSIVE FromElementsLoop(_, _, _)
\* The loop of from_elements from the i-th element on, result so far given.
FromElementsLoop(elements, i, result) ==
    IF i > Len(elements) THEN result
    ELSE LET e == elements[i] IN
         CASE e.kind = "Empty" ->
                FromElementsLoop(elements, i + 1, result)
           [] e.kind = "Tag" ->
                FromElementsLoop(elements, i + 1,
                    Append(result,
                           RenderTag(e.name, e.attributes,
                                     FromElementsLoop(e.children, 1, <<>>),
                                     e.void)))
           [] e.kind = "Fragment" ->
                FromElementsLoop(elements, i + 1,
                    result \o FromElementsLoop(e.children, 1, <<>>))
           [] e.kind = "Text" ->
                FromElementsLoop(elements, i + 1, result \o TextArms(e.text))
           [] e.kind = "Raw" ->
                FromElementsLoop(elements, i + 1,
                                 Append(result, RenderRaw(e.html)))

\* RenderElement::from_elements
from_elements(elements) == FromElementsLoop(elements, 1, <<>>)

----------------------------------------------------------------------------
(* Escaping: the html_escape crate, as render_element.rs calls it. *)

\* html_escape::encode_text of one character: & < > become entities.
EncodeTextChar(c) ==
    CASE c = AMP -> <<"&", "a", "m", "p", ";">>
      [] c = LT -> <<"&", "l", "t", ";">>
      [] c = GT -> <<"&", "g", "t", ";">>
      [] OTHER -> <<c>>

\* html_escape::encode_text
encode_text(text) == Concat([i \in 1..Len(text) |-> EncodeTextChar(text[i])])

\* html_escape::encode_quoted_attribute of one character: & < > " ' become
\* entities.
EncodeQuotedAttributeChar(c) ==
    CASE c = AMP -> <<"&", "a", "m", "p", ";">>
      [] c = LT -> <<"&", "l", "t", ";">>
      [] c = GT -> <<"&", "g", "t", ";">>
      [] c = QUOT -> <<"&", "q", "u", "o", "t", ";">>
      [] c = APOS -> <<"&", "#", "x", "2", "7", ";">>
      [] OTHER -> <<c>>

\* html_escape::encode_quoted_attribute
encode_quoted_attribute(value) ==
    Concat([i \in 1..Len(value) |-> EncodeQuotedAttributeChar(value[i])])

\* A line as str::lines yields it: without its "\n", and without one "\r"
\* before that "\n".
StripLineEnding(line) ==
    IF line # <<>> /\ line[Len(line)] = CR
    THEN SubSeq(line, 1, Len(line) - 1)
    ELSE line

RECURSIVE LinesLoop(_, _, _, _)
\* str::lines from the i-th character on: cur is the line being read, acc
\* the lines read.  A last line with no "\n" is yielded as it is, unless it
\* is empty.
LinesLoop(s, i, cur, acc) ==
    IF i > Len(s) THEN (IF cur = <<>> THEN acc ELSE Append(acc, cur))
    ELSE IF s[i] = NL
         THEN LinesLoop(s, i + 1, <<>>, Append(acc, StripLineEnding(cur)))
         ELSE LinesLoop(s, i + 1, Append(cur, s[i]), acc)

\* str::lines
lines(s) == LinesLoop(s, 1, <<>>, <<>>)

----------------------------------------------------------------------------
(* Rendering: RenderElement::write and RenderElement::write_many. *)

\* The tag names is_inline_element lists.
InlineTags == {
    <<"a">>,
    <<"a", "b", "b", "r">>,
    <<"a", "c", "r", "o", "n", "y", "m">>,
    <<"b">>,
    <<"b", "d", "o">>,
    <<"b", "i", "g">>,
    <<"b", "r">>,
    <<"b", "u", "t", "t", "o", "n">>,
    <<"c", "i", "t", "e">>,
    <<"c", "o", "d", "e">>,
    <<"d", "f", "n">>,
    <<"e", "m">>,
    <<"i">>,
    <<"i", "m", "g">>,
    <<"i", "n", "p", "u", "t">>,
    <<"k", "b", "d">>,
    <<"l", "a", "b", "e", "l">>,
    <<"m", "a", "p">>,
    <<"p", "r", "e">>,
    <<"o", "b", "j", "e", "c", "t">>,
    <<"o", "u", "t", "p", "u", "t">>,
    <<"q">>,
    <<"s", "a", "m", "p">>,
    <<"s", "c", "r", "i", "p", "t">>,
    <<"s", "e", "l", "e", "c", "t">>,
    <<"s", "m", "a", "l", "l">>,
    <<"s", "p", "a", "n">>,
    <<"s", "t", "r", "o", "n", "g">>,
    <<"s", "u", "b">>,
    <<"s", "u", "p">>,
    <<"t", "e", "x", "t", "a", "r", "e", "a">>,
    <<"t", "i", "m", "e">>,
    <<"t", "t">>,
    <<"v", "a", "r">>}

\* RenderElement::tag
tag_name(self) == IF self.kind = "Tag" THEN <<self.name>> ELSE <<>>

\* RenderElement::is_inline_element
is_inline_element(self) ==
    tag_name(self) # <<>> /\ tag_name(self)[1] \in InlineTags

\* RenderElement::is_raw
is_raw(self) == self.kind = "Raw"

RECURSIVE Spaces(_)
\* depth times "  ".
Spaces(depth) == IF depth = 0 THEN <<>> ELSE <<SP, SP>> \o Spaces(depth - 1)

\* writeln! followed by depth times "  ".
Indentation(depth) == <<NL>> \o Spaces(depth)

\* An attribute as it would be written if the value were escaped for body
\* text, which leaves the double quote as it is.
WriteAttributeEscapedAsText(attribute) ==
    IF attribute.value # <<>>
    THEN <<SP>> \o attribute.key \o <<"=", QUOT>>
         \o encode_text(attribute.value[1]) \o <<QUOT>>
    ELSE <<SP>> \o attribute.key

\* An attribute as it would be written if a valueless attribute were given
\* an empty quoted value.
WriteAttributeAlwaysQuoted(attribute) ==
    <<SP>> \o attribute.key \o <<"=", QUOT>>
    \o (IF attribute.value # <<>>
        THEN encode_quoted_attribute(attribute.value[1]) ELSE <<>>)
    \o <<QUOT>>

\* One attribute of the start tag.
WriteAttribute(attribute) ==
    IF attribute.value # <<>>
    THEN <<SP>> \o attribute.key \o <<"=", QUOT>>
         \o encode_quoted_attribute(attribute.value[1]) \o <<QUOT>>
    ELSE <<SP>> \o attribute.key

\* The start tag: "<name", the attributes in order, ">".
StartTag(name, attributes) ==
    <<LT>> \o name
    \o Concat([i \in 1..Len(attributes) |-> WriteAttribute(attributes[i])])
    \o <<GT>>

\* The end tag "</name>".
EndTag(name) == <<LT, "/">> \o name \o <<GT>>

RECURSIVE WriteLines(_, _)
\* The loop over the lines of a text: a newline before every line but the
\* first.
WriteLines(ls, idx) ==
    IF idx > Len(ls) THEN <<>>
    ELSE (IF idx > 1 THEN <<NL>> ELSE <<>>) \o ls[idx] \o WriteLines(ls, idx + 1)

RECURSIVE WriteLinesIndented(_, _, _)
\* The loop over the lines as it would be if every line after the first were
\* indented to the depth.
WriteLinesIndented(ls, idx, depth) ==
    IF idx > Len(ls) THEN <<>>
    ELSE (IF idx > 1 THEN Indentation(depth) ELSE <<>>) \o ls[idx]
         \o WriteLinesIndented(ls, idx + 1, depth)

\* The Text arm as it would be with re-indented lines.
WriteTextIndented(text, depth) ==
    WriteLinesIndented(lines(encode_text(text)), 1, depth)

\* What the Text arm of write writes.
WriteText(text, depth) == WriteLines(lines(encode_text(text)), 1)

\* What the Raw arm of write writes.
WriteRaw(html, depth) == html

\* should_indent_this_child as it would be if an earlier text did not count.
should_indent_this_child_ignoring_text(should_indent, encountered_text_element, element) ==
    /\ should_indent
    /\ element.kind # "Text"
    /\ ~is_inline_element(element)
    /\ ~is_raw(element)

\* should_indent_this_child as it would be if a raw node were indented like
\* a block tag.
should_indent_this_child_indenting_raw(should_indent, encountered_text_element, element) ==
    /\ should_indent
    /\ ~encountered_text_element
    /\ ~is_inline_element(element)

\* should_indent_this_child of write_many.
should_indent_this_child(should_indent, encountered_text_element, element) ==
    /\ should_indent
    /\ ~encountered_text_element
    /\ ~is_inline_element(element)
    /\ ~is_raw(element)

\* The condition under which write_many writes the indentation.
IndentsChild(should_indent_child, depth) == should_indent_child /\ depth > 0

\* The end tag's condition as it would be if every end tag were put on a
\* line of its own.
IndentsEndTagAlways(did_indent) == TRUE

\* The condition under which write writes the indentation of the end tag.
IndentsEndTag(did_indent) == did_indent

\* The void arm as it would be without the check of the children.
VoidOutcomeUnchecked(children) == "Ok"

\* What write does after the start tag of a void tag: an error when the tag
\* has children.
VoidOutcome(children) == IF children # <<>> THEN "InvalidInput" ELSE "Ok"

RECURSIVE write(_, _), WriteManyLoop(_, _, _, _, _, _)

\* RenderElement::write_many.  The value is [res, out, did_indent]: the
\* io::Result, the bytes written (also when it failed) and the returned flag.
write_many(elements, depth) ==
    WriteManyLoop(elements, depth, 1, FALSE, FALSE, <<>>)

\* The loop of write_many from the i-th element on.
WriteManyLoop(elements, depth, i, did_indent, encountered_text_element, out) ==
    IF i > Len(elements)
    THEN [res |-> "Ok", out |-> out, did_indent |-> did_indent]
    ELSE LET element == elements[i]
             should_indent == elements # <<>>
             encountered == encountered_text_element \/ element.kind = "Text"
             indents == IndentsChild(
                 should_indent_this_child(should_indent, encountered, element),
                 depth)
             before == out \o (IF indents THEN Indentation(depth) ELSE <<>>)
             w == write(element, depth)
         IN  IF w.res # "Ok"
             THEN [res |-> w.res, out |-> before \o w.out,
                   did_indent |-> did_indent \/ indents]
             ELSE WriteManyLoop(elements, depth, i + 1, did_indent \/ indents,
                                encountered, before \o w.out)

\* RenderElement::write.  The value is [res, out]: the io::Result and the
\* bytes written (also when it failed).
write(self, depth) ==
    CASE self.kind = "Tag" ->
           LET start == StartTag(self.name, self.attributes) IN
           IF self.void
           THEN [res |-> VoidOutcome(self.children), out |-> start]
           ELSE LET m == write_many(self.children, depth + 1) IN
                IF m.res # "Ok"
                THEN [res |-> m.res, out |-> start \o m.out]
                ELSE [res |-> "Ok",
                      out |-> start \o m.out
                              \o (IF IndentsEndTag(m.did_indent)
                                  THEN Indentation(depth) ELSE <<>>)
                              \o EndTag(self.name)]
      [] self.kind = "Text" ->
           [res |-> "Ok", out |-> WriteText(self.text, depth)]
      [] self.kind = "Raw" ->
           [res |-> "Ok", out |-> WriteRaw(self.html, depth)]

----------------------------------------------------------------------------
(* AST evaluation: eval.rs. *)

\* enum AstNode
AstElement(name, attributes, children, void) ==
    [ty |-> "AstNode", kind |-> "Element", name |-> name,
     attributes |-> attributes, children |-> children, void |-> void]
AstFragment(children) == [ty |-> "AstNode", kind |-> "Fragment", children |-> children]
AstExpression == [ty |-> "AstNode", kind |-> "Expression"]
AstText(text) == [ty |-> "AstNode", kind |-> "Text", text |-> text]

\* enum AstAttribute and enum AttributeValue
AstNamed(name, value) == [kind |-> "Named", name |-> name, value |-> value]
AstInterpolated == [kind |-> "Interpolated"]
AstLiteral(lit) == [kind |-> "Literal", lit |-> lit]
AstValueExpression == [kind |-> "Expression"]

\* eval_attribute: Ok(Attribute) or an EvalError.
eval_attribute(attr) ==
    IF attr.kind = "Named"
    THEN IF attr.value = <<>>
         THEN [res |-> "Ok", val |-> Attribute(attr.name, <<>>)]
         ELSE IF attr.value[1].kind = "Literal"
              THEN [res |-> "Ok",
                    val |-> Attribute(attr.name, <<attr.value[1].lit>>)]
              ELSE [res |-> "ExpressionAttributeNotSupported"]
    ELSE [res |-> "InterpolationNotSupported"]

RECURSIVE EvalAttributesLoop(_, _, _)
\* The loop of eval_node over the attributes: the first error ends it.
EvalAttributesLoop(attributes, i, attrs) ==
    IF i > Len(attributes) THEN [res |-> "Ok", val |-> attrs]
    ELSE LET r == eval_attribute(attributes[i]) IN
         IF r.res # "Ok" THEN [res |-> r.res]
         ELSE EvalAttributesLoop(attributes, i + 1, Append(attrs, r.val))

RECURSIVE eval_node(_), EvalChildrenLoop(_, _, _)

\* The loop of eval_node over the children: the first error ends it.
EvalChildrenLoop(children, i, child_elements) ==
    IF i > Len(children) THEN [res |-> "Ok", val |-> child_elements]
    ELSE LET r == eval_node(children[i]) IN
         IF r.res # "Ok" THEN [res |-> r.res]
         ELSE EvalChildrenLoop(children, i + 1, Append(child_elements, r.val))

\* eval_node: Ok(Element) or an EvalError.
eval_node(node) ==
    CASE node.kind = "Element" ->
           LET attrs == EvalAttributesLoop(node.attributes, 1, <<>>) IN
           IF attrs.res # "Ok" THEN [res |-> attrs.res]
           ELSE LET child_elements == EvalChildrenLoop(node.children, 1, <<>>) IN
                IF child_elements.res # "Ok" THEN [res |-> child_elements.res]
                ELSE [res |-> "Ok",
                      val |-> Tag(node.name, attrs.val, child_elements.val,
                                  node.void)]
      [] node.kind = "Fragment" ->
           LET child_elements == EvalChildrenLoop(node.children, 1, <<>>) IN
           IF child_elements.res # "Ok" THEN [res |-> child_elements.res]
           ELSE [res |-> "Ok", val |-> Fragment(child_elements.val)]
      [] node.kind = "Expression" -> [res |-> "InterpolationNotSupported"]
      [] node.kind = "Text" -> [res |-> "Ok", val |-> Text(node.text)]

----------------------------------------------------------------------------
(* Owned elements: owned.rs. *)

\* enum OwnedElement
OwnedEmpty == [ty |-> "OwnedElement", kind |-> "Empty"]
OwnedTag(name, attributes, children, void) ==
    [ty |-> "OwnedElement", kind |-> "Tag", name |-> name,
     attributes |-> attributes, children |-> children, void |-> void]
OwnedFragment(children) ==
    [ty |-> "OwnedElement", kind |-> "Fragment", children |-> children]
OwnedText(text) == [ty |-> "OwnedElement", kind |-> "Text", text |-> text]
OwnedRaw(html) == [ty |-> "OwnedElement", kind |-> "Raw", html |-> html]

\* impl From<Vec<OwnedElement>> for OwnedElement
owned_from_vec(children) ==
    IF children = <<>> THEN OwnedEmpty
    ELSE IF Len(children) = 1 THEN children[1]
    ELSE OwnedFragment(children)

RECURSIVE into_bump(_)
\* OwnedElement::into_bump
into_bump(self) ==
    CASE self.kind = "Empty" -> Empty
      [] self.kind = "Tag" ->
           Tag(self.name, self.attributes,
               [i \in 1..Len(self.children) |-> into_bump(self.children[i])],
               self.void)
      [] self.kind = "Fragment" ->
           Fragment([i \in 1..Len(self.children) |-> into_bump(self.children[i])])
      [] self.kind = "Text" -> Text(self.text)
      [] self.kind = "Raw" -> Raw(self.html)

----------------------------------------------------------------------------
(* The attribute-string parser: attribute.rs. *)

\* Nothing has been parsed yet.
NotParsed == [res |-> "none"]

\* enum AttributeParseError, and the Ok of parse_from_str.
UnclosedQuote(quote, position, partial_value) ==
    [res |-> "UnclosedQuote", quote |-> quote, position |-> position,
     partial_value |-> partial_value]
InvalidSyntax(unexpected, position, context) ==
    [res |-> "InvalidSyntax", unexpected |-> unexpected,
     position |-> position, context |-> context]
ParsedAttributes(attributes) == [res |-> "Ok", val |-> attributes]

\* Attribute::boolean and Attribute::with_optional_value
boolean(key) == Attribute(key, <<>>)
with_optional_value(key, value) == Attribute(key, value)

\* The pattern ' ' | '\t' | '\n' of the state machine.
IsAttributeSpace(c) == c \in {SP, TAB, NL}

\* The characters an unquoted value is made of.
IsUnquotedValueChar(c) == is_alphanumeric(c) \/ c = HYPHEN \/ c = UNDERSCORE

\* The character that ends a quoted value, as it would be if either quote
\* character ended it.
ClosesQuoteOfEitherKind(c, quote_char) == c \in {QUOT, APOS}

\* The character that ends a quoted value: Some(c) == quote_char.
ClosesQuote(c, quote_char) == <<c>> = quote_char

RECURSIVE found_equals(_, _)
\* The lookahead of InName over a clone of the iterator: the characters from
\* position pos (0-based) on hold a '=' before anything but whitespace.
found_equals(s, pos) ==
    IF pos >= Len(s) THEN FALSE
    ELSE LET next_c == s[pos + 1] IN
         IF next_c = EQ THEN TRUE
         ELSE IF ~is_whitespace(next_c) THEN FALSE
         ELSE found_equals(s, pos + 1)

\* The lookahead as it would be if it looked at the next character only.
found_equals_next_only(s, pos) == pos < Len(s) /\ s[pos + 1] = EQ

\* The locals of parse_from_str before the loop.
ParseStart ==
    [state |-> "BeforeAttribute", attributes |-> <<>>, current_key |-> <<>>,
     current_value |-> <<>>, in_quotes |-> FALSE, quote_char |-> <<>>,
     quote_start_pos |-> 0]

\* attributes.push(attribute) as it would be if an attribute replaced the
\* earlier ones of the same key.
push_last_wins(attributes, attribute) ==
    Append(SelectSeq(attributes, LAMBDA a : a.key # attribute.key), attribute)

\* attributes.push(attribute)
push(attributes, attribute) == Append(attributes, attribute)

\* attributes.push(..); current_key.clear(); state = BeforeAttribute
PushedBoolean(st) ==
    [st EXCEPT !.attributes = push(@, boolean(st.current_key)),
               !.current_key = <<>>,
               !.state = "BeforeAttribute"]

\* attributes.push(..); current_key.clear(); current_value = None;
\* state = BeforeAttribute
PushedValue(st) ==
    [st EXCEPT !.attributes =
                   push(@, with_optional_value(st.current_key,
                                               st.current_value)),
               !.current_key = <<>>,
               !.current_value = <<>>,
               !.state = "BeforeAttribute"]

\* The arm of BeforeAttribute as it would be if a '=' began a name like any
\* other character.
BeforeAttributeTakingEquals(c, pos, st) ==
    IF IsAttributeSpace(c) THEN st
    ELSE [st EXCEPT !.current_key = Append(@, c), !.state = "InName"]

\* ParseState::BeforeAttribute => ..
BeforeAttribute(c, pos, st) ==
    IF IsAttributeSpace(c) THEN st
    ELSE IF c = EQ
    THEN InvalidSyntax(c, pos, "ExpectedAttributeName")
    ELSE [st EXCEPT !.current_key = Append(@, c), !.state = "InName"]

\* ParseState::InName => ..
InName(s, c, pos, st) ==
    IF IsAttributeSpace(c)
    THEN IF found_equals(s, pos + 1)
         THEN [st EXCEPT !.state = "BeforeEquals"]
         ELSE PushedBoolean(st)
    ELSE IF c = EQ
    THEN [st EXCEPT !.state = "AfterEquals", !.current_value = <<<<>>>>]
    ELSE [st EXCEPT !.current_key = Append(@, c)]

\* ParseState::BeforeEquals => ..
BeforeEquals(c, pos, st) ==
    IF IsAttributeSpace(c) THEN st
    ELSE IF c = EQ
    THEN [st EXCEPT !.state = "AfterEquals", !.current_value = <<<<>>>>]
    ELSE InvalidSyntax(c, pos, "ExpectedAttributeValue")

\* The arm of AfterEquals as it would be if the opening quote were kept as
\* the first character of the value.
AfterEqualsKeepingQuote(c, pos, st) ==
    IF IsAttributeSpace(c) THEN st
    ELSE IF c \in {QUOT, APOS}
    THEN [st EXCEPT !.quote_char = <<c>>, !.quote_start_pos = pos,
                    !.in_quotes = TRUE, !.state = "InQuotedValue",
                    !.current_value = <<<<c>>>>]
    ELSE IF st.current_value = <<>> THEN st
    ELSE IF ~IsUnquotedValueChar(c)
    THEN InvalidSyntax(c, pos, "ExpectedQuoteOrValue")
    ELSE [st EXCEPT !.current_value = <<Append(@[1], c)>>,
                    !.state = "InUnquotedValue"]

\* ParseState::AfterEquals => ..
AfterEquals(c, pos, st) ==
    IF IsAttributeSpace(c) THEN st
    ELSE IF c \in {QUOT, APOS}
    THEN [st EXCEPT !.quote_char = <<c>>, !.quote_start_pos = pos,
                    !.in_quotes = TRUE, !.state = "InQuotedValue"]
    ELSE IF st.current_value = <<>> THEN st
    ELSE IF ~IsUnquotedValueChar(c)
    THEN InvalidSyntax(c, pos, "ExpectedQuoteOrValue")
    ELSE [st EXCEPT !.current_value = <<Append(@[1], c)>>,
                    !.state = "InUnquotedValue"]

\* ParseState::InQuotedValue => ..
InQuotedValue(c, pos, st) ==
    IF ClosesQuote(c, st.quote_char)
    THEN [PushedValue(st) EXCEPT !.in_quotes = FALSE]
    ELSE IF st.current_value = <<>> THEN st
    ELSE [st EXCEPT !.current_value = <<Append(@[1], c)>>]

\* ParseState::InUnquotedValue => ..
InUnquotedValue(c, pos, st) ==
    IF IsAttributeSpace(c) THEN PushedValue(st)
    ELSE IF ~IsUnquotedValueChar(c)
    THEN InvalidSyntax(c, pos, "ExpectedQuoteOrValue")
    ELSE IF st.current_value = <<>> THEN st
    ELSE [st EXCEPT !.current_value = <<Append(@[1], c)>>]

\* One turn of the loop of parse_from_str on the character c at position pos
\* (0-based): the locals after it, or the error returned.
ParseChar(s, pos, c, st) ==
    CASE st.state = "BeforeAttribute" -> BeforeAttribute(c, pos, st)
      [] st.state = "InName" -> InName(s, c, pos, st)
      [] st.state = "BeforeEquals" -> BeforeEquals(c, pos, st)
      [] st.state = "AfterEquals" -> AfterEquals(c, pos, st)
      [] st.state = "InQuotedValue" -> InQuotedValue(c, pos, st)
      [] st.state = "InUnquotedValue" -> InUnquotedValue(c, pos, st)

\* What parse_from_str returns after the loop.
ParseEnd(st) ==
    IF st.in_quotes
    THEN UnclosedQuote(st.quote_char[1], st.quote_start_pos,
                       IF st.current_value = <<>> THEN <<>>
                       ELSE st.current_value[1])
    ELSE IF st.current_key # <<>>
    THEN ParsedAttributes(push(st.attributes,
             with_optional_value(st.current_key, st.current_value)))
    ELSE ParsedAttributes(st.attributes)

RECURSIVE ParseLoop(_, _, _)
\* The loop of parse_from_str from position pos (0-based) on.
ParseLoop(s, pos, st) ==
    IF pos >= Len(s) THEN ParseEnd(st)
    ELSE LET after == ParseChar(s, pos, s[pos + 1], st) IN
         IF "res" \in DOMAIN after THEN after
         ELSE ParseLoop(s, pos + 1, after)

\* Attribute::parse_from_str
parse_from_str(s) == ParseLoop(s, 0, ParseStart)

----------------------------------------------------------------------------
(* The markup parser: paxhtml_parser/src/parser.rs.  A Parser is its input *)
(* and pos, the 0-based index of the next character; a parse function      *)
(* returns its value with the pos it leaves, or a ParseError.              *)

SLASH == "/"
LBRACE == "{"
RBRACE == "}"
HASH == "#"
BACKSLASH == "\\"

\* Parser::error: ParseError { message, position }.  The message is kept as
\* its parts.
error(message, pos) ==
    [res |-> "ParseError", message |-> message, position |-> pos]

\* A value returned together with the pos the parser is left at.
Parsed(val, pos) == [res |-> "Ok", val |-> val, pos |-> pos]

\* result? : an error is returned at once, and what follows is given the
\* value of a result that is Ok.
Try(result, rest(_)) ==
    CHOOSE returned \in {IF r.res # "Ok" THEN r ELSE rest(r) : r \in {result}} :
        TRUE

\* match result { Ok(..) => .., Err(..) => .. } on a result computed once.
Match(result, arms(_)) == CHOOSE returned \in {arms(r) : r \in {result}} : TRUE

\* Parser::current and Parser::peek: Option<char>.
current(parser_input, pos) ==
    IF pos < Len(parser_input) THEN <<parser_input[pos + 1]>> ELSE <<>>
peek(parser_input, pos, offset) == current(parser_input, pos + offset)

RECURSIVE skip_whitespace(_, _)
\* Parser::skip_whitespace: the pos after it.
skip_whitespace(parser_input, pos) ==
    IF current(parser_input, pos) # <<>>
       /\ is_whitespace(current(parser_input, pos)[1])
    THEN skip_whitespace(parser_input, pos + 1)
    ELSE pos

\* Parser::expect: the character is consumed before it is compared.
expect(parser_input, pos, expected) ==
    LET c == current(parser_input, pos) IN
    IF c = <<>>
    THEN error(<<"Expected", expected, "found end of input">>, pos)
    ELSE IF c[1] = expected THEN Parsed(expected, pos + 1)
    ELSE error(<<"Expected", expected, "found", c[1]>>, pos + 1)

RECURSIVE IdentifierRest(_, _, _)
\* The second loop of parse_identifier.
IdentifierRest(parser_input, pos, ident) ==
    LET c == current(parser_input, pos) IN
    IF c # <<>> /\ (is_alphanumeric(c[1]) \/ c[1] = UNDERSCORE \/ c[1] = HYPHEN)
    THEN IdentifierRest(parser_input, pos + 1, Append(ident, c[1]))
    ELSE Parsed(ident, pos)

\* Parser::parse_identifier
parse_identifier(parser_input, pos) ==
    LET c == current(parser_input, pos) IN
    IF c = <<>>
    THEN error(<<"Expected identifier, found end of input">>, pos)
    ELSE IF is_alphabetic(c[1]) \/ c[1] = UNDERSCORE
    THEN IdentifierRest(parser_input, pos + 1, <<c[1]>>)
    ELSE error(<<"Expected identifier, found", c[1]>>, pos)

\* The character an escape stands for in a string literal.
Unescaped(c) ==
    CASE c = "n" -> NL
      [] c = "r" -> CR
      [] c = "t" -> TAB
      [] OTHER -> c

RECURSIVE StringLiteralLoop(_, _, _)
\* The loop of parse_string_literal.
StringLiteralLoop(parser_input, pos, value) ==
    LET c == current(parser_input, pos) IN
    IF c = <<>> THEN error(<<"Unterminated string literal">>, pos)
    ELSE IF c[1] = QUOT THEN Parsed(value, pos + 1)
    ELSE IF c[1] = BACKSLASH
    THEN LET escaped == current(parser_input, pos + 1) IN
         IF escaped = <<>>
         THEN error(<<"Unterminated string literal">>, pos + 1)
         ELSE StringLiteralLoop(parser_input, pos + 2,
                                Append(value, Unescaped(escaped[1])))
    ELSE StringLiteralLoop(parser_input, pos + 1, Append(value, c[1]))

\* Parser::parse_string_literal
parse_string_literal(parser_input, pos) ==
    Try(expect(parser_input, pos, QUOT),
        LAMBDA opened : StringLiteralLoop(parser_input, opened.pos, <<>>))

\* char::to_lowercase on the characters of the model.
ToLower(c) ==
    CASE c = "A" -> "a" [] c = "B" -> "b" [] c = "C" -> "c" [] c = "D" -> "d"
      [] c = "E" -> "e" [] c = "F" -> "f" [] c = "G" -> "g" [] c = "H" -> "h"
      [] c = "I" -> "i" [] c = "J" -> "j" [] c = "K" -> "k" [] c = "L" -> "l"
      [] c = "M" -> "m" [] c = "N" -> "n" [] c = "O" -> "o" [] c = "P" -> "p"
      [] c = "Q" -> "q" [] c = "R" -> "r" [] c = "S" -> "s" [] c = "T" -> "t"
      [] c = "U" -> "u" [] c = "V" -> "v" [] c = "W" -> "w" [] c = "X" -> "x"
      [] c = "Y" -> "y" [] c = "Z" -> "z" [] OTHER -> c

\* The character classes convert_case's boundaries look at.
IsLower(c) == c \in AsciiLower \cup {EACUTE}
IsUpper(c) == c \in AsciiUpper
IsDigit(c) == c \in AsciiDigits

\* convert_case's default boundaries between two adjacent characters of a
\* word, the character after them given as an Option: lower|upper, a letter
\* next to a digit, and the last capital of an acronym (AB|Cd).
IsWordBoundary(left, right, after) ==
    \/ IsLower(left) /\ IsUpper(right)
    \/ IsUpper(left) /\ IsDigit(right)
    \/ IsDigit(left) /\ IsUpper(right)
    \/ IsDigit(left) /\ IsLower(right)
    \/ IsLower(left) /\ IsDigit(right)
    \/ IsUpper(left) /\ IsUpper(right) /\ after # <<>> /\ IsLower(after[1])

RECURSIVE SplitWords(_, _, _)
\* convert_case's split: the words of an identifier, the delimiters '_', '-'
\* and ' ' left out.
SplitWords(name, i, word) ==
    IF i > Len(name) THEN <<word>>
    ELSE IF name[i] \in {UNDERSCORE, HYPHEN, SP}
    THEN <<word>> \o SplitWords(name, i + 1, <<>>)
    ELSE IF word # <<>>
            /\ IsWordBoundary(word[Len(word)], name[i],
                              IF i < Len(name) THEN <<name[i + 1]>> ELSE <<>>)
    THEN <<word>> \o SplitWords(name, i + 1, <<name[i]>>)
    ELSE SplitWords(name, i + 1, Append(word, name[i]))

RECURSIVE JoinWords(_)
\* The words in lower case, joined by '-'.
JoinWords(words) ==
    IF words = <<>> THEN <<>>
    ELSE LET word == [i \in 1..Len(words[1]) |-> ToLower(words[1][i])] IN
         IF Len(words) = 1 THEN word
         ELSE word \o <<HYPHEN>> \o JoinWords(Tail(words))

\* name.to_case(Case::Kebab) as it would be if nothing were converted.
to_case_kebab_unchanged(name) == name

\* name.to_case(Case::Kebab): empty words are dropped, so a name made of
\* delimiters only becomes the empty string.
to_case_kebab(name) ==
    JoinWords(SelectSeq(SplitWords(name, 1, <<>>), LAMBDA word : word # <<>>))

\* The value of an attribute as it would be read if an interpolation were
\* not looked for.
AttributeValueWithoutInterpolationCheck(parser_input, at_value, name) ==
    Try(parse_string_literal(parser_input, at_value),
        LAMBDA value :
            Parsed(AstNamed(name, <<AstLiteral(value.val)>>), value.pos))

\* The value of an attribute after "=": a string literal.
AttributeValue(parser_input, at_value, name) ==
    IF current(parser_input, at_value) = <<LBRACE>>
    THEN error(<<"Interpolation is not supported in runtime HTML parsing">>,
               at_value)
    ELSE Try(parse_string_literal(parser_input, at_value),
             LAMBDA value :
                 Parsed(AstNamed(name, <<AstLiteral(value.val)>>), value.pos))

\* Parser::parse_attribute
parse_attribute(parser_input, pos) ==
    IF current(parser_input, pos) = <<LBRACE>>
    THEN error(<<"Interpolation is not supported in runtime HTML parsing">>, pos)
    ELSE Try(parse_identifier(parser_input, pos),
             LAMBDA ident :
                 LET name == to_case_kebab(ident.val)
                     after_name == skip_whitespace(parser_input, ident.pos)
                 IN  IF current(parser_input, after_name) = <<EQ>>
                     THEN AttributeValue(parser_input,
                              skip_whitespace(parser_input, after_name + 1),
                              name)
                     ELSE Parsed(AstNamed(name, <<>>), after_name))

RECURSIVE TextLoop(_, _, _)
\* The loop of parse_text.
TextLoop(parser_input, pos, text) ==
    LET c == current(parser_input, pos) IN
    IF c = <<>> \/ c = <<LT>> \/ c = <<LBRACE>> THEN Parsed(text, pos)
    ELSE TextLoop(parser_input, pos + 1, Append(text, c[1]))

\* Parser::parse_text
parse_text(parser_input, pos) == TextLoop(parser_input, pos, <<>>)

RECURSIVE AttributesLoop(_, _, _)
\* The loop of parse_node over the attributes of a tag.
AttributesLoop(parser_input, pos, attributes) ==
    LET c == current(parser_input, pos) IN
    IF c = <<>> \/ c = <<GT>> \/ c = <<SLASH>> THEN Parsed(attributes, pos)
    ELSE Try(parse_attribute(parser_input, pos),
             LAMBDA attribute :
                 AttributesLoop(parser_input,
                                skip_whitespace(parser_input, attribute.pos),
                                Append(attributes, attribute.val)))

\* The end of a start tag as it would be if "/>" were read but the element
\* were not marked void.
VoidOrOpenNeverVoid(parser_input, pos) ==
    IF current(parser_input, pos) = <<SLASH>>
    THEN Try(expect(parser_input, skip_whitespace(parser_input, pos + 1), GT),
             LAMBDA closed : Parsed(FALSE, closed.pos))
    ELSE Try(expect(parser_input, pos, GT),
             LAMBDA closed : Parsed(FALSE, closed.pos))

\* The end of a start tag: "/", whitespace and ">" make the element void,
\* ">" alone does not.  The value is the void flag.
VoidOrOpen(parser_input, pos) ==
    IF current(parser_input, pos) = <<SLASH>>
    THEN Try(expect(parser_input, skip_whitespace(parser_input, pos + 1), GT),
             LAMBDA closed : Parsed(TRUE, closed.pos))
    ELSE Try(expect(parser_input, pos, GT),
             LAMBDA closed : Parsed(FALSE, closed.pos))

\* The comparison of a closing tag's name with the tag it closes, as it would
\* be if capitals did not count.
ClosesParentIgnoringCase(close_name, parent_tag) ==
    [i \in 1..Len(close_name) |-> ToLower(close_name[i])]
        = [i \in 1..Len(parent_tag[1]) |-> ToLower(parent_tag[1][i])]

\* Some(close_name.as_str()) == parent_tag
ClosesParent(close_name, parent_tag) == <<close_name>> = parent_tag

\* The closing tag read by parse_children after "</": ">" for a fragment,
\* the parent's name and ">" for an element.  The value is the pos after it.
ClosingTag(parser_input, pos, parent_tag) ==
    IF parent_tag = <<>>
    THEN expect(parser_input, skip_whitespace(parser_input, pos), GT)
    ELSE Try(parse_identifier(parser_input, skip_whitespace(parser_input, pos)),
             LAMBDA close_name :
                 IF ~ClosesParent(close_name.val, parent_tag)
                 THEN error(<<"Mismatched closing tag: expected", parent_tag,
                              "found", close_name.val>>, close_name.pos)
                 ELSE expect(parser_input,
                             skip_whitespace(parser_input, close_name.pos),
                             GT))

\* The text node read by parse_node as it would be if an empty text were
\* let through.
TextNodeAllowingEmpty(parser_input, pos) ==
    Try(parse_text(parser_input, pos),
        LAMBDA text : Parsed(AstText(text.val), text.pos))

\* The text node read by parse_node where no element begins: an empty text
\* is an error.
TextNode(parser_input, pos) ==
    Try(parse_text(parser_input, pos),
        LAMBDA text :
            IF text.val = <<>>
            THEN error(<<"Expected element or text">>, text.pos)
            ELSE Parsed(AstText(text.val), text.pos))

RECURSIVE parse_node(_, _), ChildrenLoop(_, _, _, _)

\* What parse_node reads after a tag's name: the attributes, the end of the
\* start tag and, unless the element is void, its children.
ElementAfterName(parser_input, name) ==
    Try(AttributesLoop(parser_input,
                       skip_whitespace(parser_input, name.pos), <<>>),
        LAMBDA attributes :
            Try(VoidOrOpen(parser_input, attributes.pos),
                LAMBDA void :
                    IF void.val
                    THEN Parsed(AstElement(name.val, attributes.val, <<>>,
                                           TRUE),
                                void.pos)
                    ELSE Try(ChildrenLoop(parser_input, void.pos,
                                          <<name.val>>, <<>>),
                             LAMBDA children :
                                 Parsed(AstElement(name.val, attributes.val,
                                                   children.val, FALSE),
                                        children.pos))))

\* Parser::parse_node
parse_node(parser_input, start) ==
    LET pos == skip_whitespace(parser_input, start) IN
    IF current(parser_input, pos) = <<LBRACE>>
    THEN error(<<"Interpolation is not supported in runtime HTML parsing">>, pos)
    ELSE IF current(parser_input, pos) = <<HASH>>
            /\ peek(parser_input, pos, 1) = <<LBRACE>>
    THEN error(<<"Interpolation is not supported in runtime HTML parsing">>, pos)
    ELSE IF current(parser_input, pos) = <<LT>>
    THEN IF current(parser_input, pos + 1) = <<GT>>
         THEN Try(ChildrenLoop(parser_input, pos + 2, <<>>, <<>>),
                  LAMBDA children :
                      Parsed(AstFragment(children.val), children.pos))
         ELSE IF current(parser_input, pos + 1) = <<SLASH>>
         THEN error(<<"Unexpected closing tag">>, pos + 1)
         ELSE Try(parse_identifier(parser_input, pos + 1),
                  LAMBDA name : ElementAfterName(parser_input, name))
    ELSE TextNode(parser_input, pos)

\* The loop of Parser::parse_children: the children read so far, from pos on.
ChildrenLoop(parser_input, start, parent_tag, children) ==
    LET pos == skip_whitespace(parser_input, start) IN
    IF current(parser_input, pos) = <<LT>>
       /\ peek(parser_input, pos, 1) = <<SLASH>>
    THEN Try(ClosingTag(parser_input, pos + 2, parent_tag),
             LAMBDA closed : Parsed(children, closed.pos))
    ELSE IF current(parser_input, pos) = <<>>
    THEN IF parent_tag # <<>>
         THEN error(<<"Unclosed tag: expected closing tag for", parent_tag[1]>>,
                    pos)
         ELSE Parsed(children, pos)
    ELSE Try(parse_node(parser_input, pos),
             LAMBDA child :
                 ChildrenLoop(parser_input, child.pos, parent_tag,
                              Append(children, child.val)))

\* Parser::parse_children
parse_children(parser_input, pos, parent_tag) ==
    ChildrenLoop(parser_input, pos, parent_tag, <<>>)

\* paxhtml_parser::parse_html as it would be if what follows the root node
\* were not looked at.
parser_parse_html_ignoring_rest(parser_input) ==
    Try(parse_node(parser_input, 0),
        LAMBDA node : [res |-> "Ok", val |-> node.val])

\* paxhtml_parser::parse_html: Ok(AstNode) or a ParseError.
parser_parse_html(parser_input) ==
    Try(parse_node(parser_input, 0),
        LAMBDA node :
            LET pos == skip_whitespace(parser_input, node.pos) IN
            IF current(parser_input, pos) # <<>>
            THEN error(<<"Unexpected content after root element">>, pos)
            ELSE [res |-> "Ok", val |-> node.val])

\* paxhtml::parse_html: Ok(Element), ParseHtmlError::Parse(ParseError) or
\* ParseHtmlError::Eval(EvalError).
parse_html(html) ==
    Match(parser_parse_html(html),
          LAMBDA ast :
              IF ast.res # "Ok" THEN [res |-> "Parse", error |-> ast]
              ELSE Match(eval_node(ast.val),
                         LAMBDA element :
                             IF element.res # "Ok"
                             THEN [res |-> "Eval", error |-> element.res]
                             ELSE [res |-> "Ok", val |-> element.val]))

----------------------------------------------------------------------------
(* The values the caller works with. *)

div == <<"d", "i", "v">>
anchor == <<"a">>
id == <<"i", "d">>
hidden == <<"h", "i", "d", "d", "e", "n">>

\* The texts of the tree runs: the caller's string, the formatting newline
\* and two other whitespace-only texts.
TreeTexts == {src, <<NL>>, <<NL, NL>>, <<SP>>}

\* The raw html of the tree runs.
TreeRaws == {<<LT, NL, AMP>>}

\* The tag names of the tree runs: a block tag and an inline tag.
TreeNames == {div, anchor}

\* The lists of OwnedElements the caller collects in the tree runs.
OwnedLists ==
    LET samples == {OwnedEmpty, OwnedText(src), OwnedFragment(<<>>)}
    IN  UNION {[1..k -> samples] : k \in 0..2}

\* The ASTs the caller evaluates in the tree runs.
AstSamples ==
    {AstElement(anchor, <<>>, <<AstText(src)>>, TRUE),
     AstElement(div, <<AstNamed(hidden, <<>>)>>, <<>>, FALSE),
     AstFragment(<<AstElement(div, <<>>, <<>>, TRUE)>>),
     AstFragment(<<>>),
     AstElement(div, <<>>, <<AstExpression>>, FALSE),
     AstElement(div, <<AstNamed(id, <<AstValueExpression>>)>>, <<>>, FALSE)}

\* The characters of the caller's string in the string runs.
Alphabet == {"a", AMP, LT, GT, QUOT, NL, CR}

\* The attribute lists of the string runs: none, or a valueless attribute
\* followed by one whose value is the caller's string.
StrAttributes ==
    {<<>>, <<Attribute(hidden, <<>>), Attribute(id, <<src>>)>>}

\* The characters of the attribute strings: a letter, a letter outside
\* ASCII, '=', both quotes, a space, and a whitespace character that is not
\* one of ' ', '\t', '\n'.
AttrAlphabet == {"a", EACUTE, EQ, QUOT, APOS, SP, CR}

\* The pieces the markup is put together from: start tags of a and br left
\* open for attributes, the two ends of a start tag, closing tags, the
\* fragment's tags, an attribute named _, an attribute with a value, a text
\* and a space.
MarkupTokens ==
    {<<LT, "a">>, <<LT, "b", "r">>, <<GT>>, <<SLASH, GT>>,
     <<LT, SLASH, "a", GT>>, <<LT, SLASH, "A", GT>>,
     <<LT, SLASH, "b", "r", GT>>, <<LT, GT>>, <<LT, SLASH, GT>>,
     <<SP, UNDERSCORE>>, <<SP, "c", EQ, QUOT, "v", QUOT>>, <<"t">>, <<SP>>}

\* The markup the caller may hand to the parser.
Markups ==
    {Concat(tokens) :
        tokens \in UNION {[1..k -> MarkupTokens] : k \in 0..MaxMarkupTokens}}

\* The pieces of the markup of the runtime runs: interpolations, quoted text
\* and attribute names in camel case, with a digit, in kebab case and with
\* the raw-identifier prefix.
RuntimeTokens ==
    {<<LT, "p">>, <<GT>>, <<SLASH, GT>>, <<LT, SLASH, "p", GT>>,
     <<LBRACE, "x", RBRACE>>, <<HASH>>,
     <<SP, "m", "y", "A", "t", "t", "r">>, <<SP, "x", "1", EQ>>,
     <<QUOT, "t", QUOT>>, <<SP, "r", HASH, "c", EQ, QUOT, "t", QUOT>>,
     <<SP, "a", HYPHEN, "b">>, <<SP>>}

\* The markup the caller may hand to the runtime entry point.
RuntimeMarkups ==
    {Concat(tokens) :
        tokens \in UNION {[1..k -> RuntimeTokens] : k \in 0..MaxMarkupTokens}}

\* The pieces of the markup of the parser runs: those of the runtime runs
\* that both parsers read some way into, and a quote by itself.
ParserTokens ==
    (RuntimeTokens \cup {<<QUOT>>})
        \ {<<LBRACE, "x", RBRACE>>, <<HASH>>,
           <<SP, "m", "y", "A", "t", "t", "r">>,
           <<SP, "r", HASH, "c", EQ, QUOT, "t", QUOT>>}

\* The markup the caller may hand to either parser.
ParserMarkups ==
    {Concat(tokens) :
        tokens \in UNION {[1..k -> ParserTokens] : k \in 0..MaxMarkupTokens}}

----------------------------------------------------------------------------
(* The operations. *)

\* Element::Empty
ElementEmpty ==
    /\ pc = "build"
    /\ pool' = Append(pool, Empty)
    /\ UNCHANGED <<pc, src, input, doc, writer, outcome, parsed>>

\* Builder::text
BuilderText(text) ==
    /\ pc = "build"
    /\ pool' = Append(pool, Text(text))
    /\ UNCHANGED <<pc, src, input, doc, writer, outcome, parsed>>

\* Builder::raw
BuilderRaw(html) ==
    /\ pc = "build"
    /\ pool' = Append(pool, Raw(html))
    /\ UNCHANGED <<pc, src, input, doc, writer, outcome, parsed>>

\* Builder::tag(name, attributes, void)(the last k elements built)
BuilderTag(name, attributes, void, k) ==
    /\ pc = "build"
    /\ k <= Len(pool)
    /\ pool' = Append(DropLastK(pool, k),
                      tag(name, attributes, void, LastK(pool, k)))
    /\ UNCHANGED <<pc, src, input, doc, writer, outcome, parsed>>

\* Builder::fragment(the last k elements built)
BuilderFragment(k) ==
    /\ pc = "build"
    /\ k <= Len(pool)
    /\ pool' = Append(DropLastK(pool, k), from_iter(LastK(pool, k)))
    /\ UNCHANGED <<pc, src, input, doc, writer, outcome, parsed>>

\* OwnedElement::from(children).into_bump(bump)
OwnedCollect(children) ==
    /\ pc = "build"
    /\ pool' = Append(pool, into_bump(owned_from_vec(children)))
    /\ UNCHANGED <<pc, src, input, doc, writer, outcome, parsed>>

\* eval_node(bump, node): the element is kept, or the caller stops at the
\* error.
EvalNode(node) ==
    /\ pc = "build"
    /\ LET r == eval_node(node) IN
       IF r.res = "Ok"
       THEN /\ pool' = Append(pool, r.val)
            /\ UNCHANGED <<pc, outcome>>
       ELSE /\ pc' = "failed"
            /\ outcome' = r.res
            /\ UNCHANGED pool
    /\ UNCHANGED <<src, input, doc, writer, parsed>>

\* Attribute::parse_from_str(bump, src)
AttributeParseFromStr ==
    /\ pc = "parse"
    /\ pc' = "parsed"
    /\ parsed' = parse_from_str(src)
    /\ UNCHANGED <<src, pool, input, doc, writer, outcome>>

\* paxhtml_parser::parse_html(src): the caller goes on with the AST, or stops
\* at the error.
ParserParseHtml ==
    /\ pc = "parse"
    /\ parsed' = parser_parse_html(src)
    /\ pc' = IF parsed'.res = "Ok" THEN "build" ELSE "failed"
    /\ outcome' = IF parsed'.res = "Ok" THEN outcome ELSE "Parse"
    /\ UNCHANGED <<src, pool, input, doc, writer>>

\* paxhtml::parse_html(bump, src): the caller goes on with the element, or
\* stops at the error.
ParseHtml ==
    /\ pc = "parse"
    /\ LET r == parse_html(src) IN
       IF r.res = "Ok"
       THEN /\ pool' = Append(pool, r.val)
            /\ pc' = "build"
            /\ UNCHANGED outcome
       ELSE /\ pc' = "failed"
            /\ outcome' = r.res
            /\ UNCHANGED pool
    /\ UNCHANGED <<src, input, doc, writer, parsed>>

\* Document::new(bump, the elements built)
DocumentNew ==
    /\ pc = "build"
    /\ pc' = "document"
    /\ input' = pool
    /\ doc' = from_elements(pool)
    /\ pool' = <<>>
    /\ UNCHANGED <<src, writer, outcome, parsed>>

\* Document::write(writer)
DocumentWrite ==
    /\ pc = "document"
    /\ pc' = "written"
    /\ LET w == write_many(doc, 0) IN
       /\ writer' = w.out
       /\ outcome' = w.res
    /\ UNCHANGED <<src, pool, input, doc, parsed>>

----------------------------------------------------------------------------
(* The tree runs: the caller builds any tree of at most MaxNodes nodes. *)

Init ==
    /\ pc = "build"
    /\ src = <<"a">>
    /\ pool = <<>>
    /\ input = <<>>
    /\ doc = <<>>
    /\ writer = <<>>
    /\ outcome = "none"
    /\ parsed = NotParsed

\* The caller builds no more than limit nodes.
Fits(limit) == NodeCount(pool') <= limit

Next ==
    \/ ElementEmpty /\ Fits(MaxNodes)
    \/ \E text \in TreeTexts : BuilderText(text) /\ Fits(MaxNodes)
    \/ \E html \in TreeRaws : BuilderRaw(html) /\ Fits(MaxNodes)
    \/ \E name \in TreeNames, void \in BOOLEAN, k \in 0..MaxNodes :
          BuilderTag(name, <<>>, void, k) /\ Fits(MaxNodes)
    \/ \E k \in 0..MaxNodes : BuilderFragment(k) /\ Fits(MaxNodes)
    \/ \E children \in OwnedLists : OwnedCollect(children) /\ Fits(MaxNodes)
    \/ \E node \in AstSamples : EvalNode(node) /\ Fits(MaxNodes)
    \/ DocumentNew
    \/ DocumentWrite

Spec == Init /\ [][Next]_vars

----------------------------------------------------------------------------
(* The string runs: the caller builds a small tree around any string of at *)
(* most MaxStrLen characters.                                              *)

InitStr ==
    /\ pc = "build"
    /\ src \in StringsUpTo(Alphabet, MaxStrLen)
    /\ pool = <<>>
    /\ input = <<>>
    /\ doc = <<>>
    /\ writer = <<>>
    /\ outcome = "none"
    /\ parsed = NotParsed

NextStr ==
    \/ BuilderText(src) /\ Fits(MaxStrNodes)
    \/ BuilderRaw(src) /\ Fits(MaxStrNodes)
    \/ \E attributes \in StrAttributes, void \in BOOLEAN, k \in 0..MaxStrNodes :
          BuilderTag(div, attributes, void, k) /\ Fits(MaxStrNodes)
    \/ DocumentNew
    \/ DocumentWrite

SpecStr == InitStr /\ [][NextStr]_vars

----------------------------------------------------------------------------
(* The attribute runs: the caller parses any attribute string of at most   *)
(* MaxAttrLen characters.                                                  *)

InitAttr ==
    /\ pc = "parse"
    /\ src \in StringsUpTo(AttrAlphabet, MaxAttrLen)
    /\ pool = <<>>
    /\ input = <<>>
    /\ doc = <<>>
    /\ writer = <<>>
    /\ outcome = "none"
    /\ parsed = NotParsed

NextAttr == AttributeParseFromStr

SpecAttr == InitAttr /\ [][NextAttr]_vars

----------------------------------------------------------------------------
(* The markup runs: the caller parses markup put together from at most     *)
(* MaxMarkupTokens pieces, evaluates it, and writes the document.          *)

InitMarkup ==
    /\ pc = "parse"
    /\ src \in Markups
    /\ pool = <<>>
    /\ input = <<>>
    /\ doc = <<>>
    /\ writer = <<>>
    /\ outcome = "none"
    /\ parsed = NotParsed

NextMarkup ==
    \/ ParserParseHtml
    \/ ParseHtml
    \/ pool = <<>> /\ parsed.res = "Ok" /\ EvalNode(parsed.val)
    \/ DocumentNew
    \/ DocumentWrite

SpecMarkup == InitMarkup /\ [][NextMarkup]_vars

----------------------------------------------------------------------------
(* The runtime runs: as the markup runs, on markup built from at most       *)
(* MaxMarkupTokens of the pieces of RuntimeTokens.                         *)

InitRuntime ==
    /\ pc = "parse"
    /\ src \in RuntimeMarkups
    /\ pool = <<>>
    /\ input = <<>>
    /\ doc = <<>>
    /\ writer = <<>>
    /\ outcome = "none"
    /\ parsed = NotParsed

SpecRuntime == InitRuntime /\ [][NextMarkup]_vars

----------------------------------------------------------------------------
(* The parser runs: the caller hands markup built from at most             *)
(* MaxMarkupTokens of the pieces of ParserTokens to the markup parser or   *)
(* to the attribute parser.                                                *)

InitParsers ==
    /\ pc = "parse"
    /\ src \in ParserMarkups
    /\ pool = <<>>
    /\ input = <<>>
    /\ doc = <<>>
    /\ writer = <<>>
    /\ outcome = "none"
    /\ parsed = NotParsed

NextParsers ==
    \/ ParserParseHtml
    \/ AttributeParseFromStr

SpecParsers == InitParsers /\ [][NextParsers]_vars

----------------------------------------------------------------------------
(* What the claims speak of. *)

\* The document has been made (and perhaps written).
Made == pc \in {"document", "written"}

\* The document has been written.
Written == pc = "written"

RECURSIVE NodesAt(_, _)
\* The nodes write is given when the elements are written at depth, each
\* with the depth it is written at; the children of a void tag are never
\* written.
NodesAt(elements, depth) ==
    UNION {{<<elements[i], depth>>}
           \cup (IF elements[i].kind = "Tag" /\ ~elements[i].void
                 THEN NodesAt(elements[i].children, depth + 1)
                 ELSE {})
           : i \in 1..Len(elements)}

\* The sibling lists write_many is given, each with its depth.
ListsAt(elements, depth) ==
    {<<elements, depth>>}
    \cup {<<n[1].children, n[2] + 1>> :
            n \in {m \in NodesAt(elements, depth) :
                     m[1].kind = "Tag" /\ ~m[1].void}}

RECURSIVE AllNodes(_)
\* Every node of a list of trees, at any depth.
AllNodes(elements) ==
    UNION {{elements[i]}
           \cup (IF elements[i].kind \in {"Tag", "Fragment"}
                 THEN AllNodes(elements[i].children)
                 ELSE {})
           : i \in 1..Len(elements)}

----------------------------------------------------------------------------
(* C1: normalisation is the depth-first flattening. *)

RECURSIVE Flattened(_), Contribution(_)
\* What one Element contributes to the flattening: nothing for Empty and
\* for the text "\n", its own flattened children for a Fragment, one node
\* otherwise.
Contribution(e) ==
    CASE e.kind = "Empty" -> <<>>
      [] e.kind = "Fragment" -> Flattened(e.children)
      [] e.kind = "Text" ->
           IF e.text = <<NL>> THEN <<>> ELSE <<RenderText(e.text)>>
      [] e.kind = "Raw" -> <<RenderRaw(e.html)>>
      [] e.kind = "Tag" ->
           <<RenderTag(e.name, e.attributes, Flattened(e.children), e.void)>>

\* The flattening of a list: the contributions of its elements, in order.
Flattened(elements) ==
    Concat([i \in 1..Len(elements) |-> Contribution(elements[i])])

\* C1: Document::new's children are exactly the depth-first, order-preserving
\* flattening of the elements given: Empty and the text "\n" give no node, a
\* Fragment gives its flattened children in place, every other Text, every
\* Raw and every Tag (children flattened likewise) gives one node; a single
\* top-level Fragment of n tags gives n top-level nodes.
C1_FromElementsFlattens ==
    Made =>
      /\ doc = Flattened(input)
      /\ \A n \in AllNodes(doc) :
            /\ n.ty = "RenderElement"
            /\ n.kind \in {"Tag", "Text", "Raw"}
            /\ n.kind = "Text" => n.text # <<NL>>
      /\ (/\ Len(input) = 1
          /\ input[1].kind = "Fragment"
          /\ \A i \in 1..Len(input[1].children) :
                input[1].children[i].kind = "Tag")
         => Len(doc) = Len(input[1].children)

\* A fragment holding "\n" and "\n\n" has been normalised: only "\n\n" is
\* left, at the top level.
C1_Witness ==
    /\ pc = "document"
    /\ input = <<Fragment(<<Text(<<NL>>), Text(<<NL, NL>>)>>)>>
    /\ doc = <<RenderText(<<NL, NL>>)>>

\* A top-level fragment of two tags has been normalised to two nodes.
C1_WitnessFragmentOfTags ==
    /\ pc = "document"
    /\ input = <<Fragment(<<Tag(div, <<>>, <<>>, FALSE),
                            Tag(anchor, <<>>, <<>>, FALSE)>>)>>
    /\ Len(doc) = 2

----------------------------------------------------------------------------
(* C9: normalisation is idempotent. *)

RECURSIVE AsElements(_)
\* RenderElements re-expressed as Elements: Tag, Text and Raw only.
AsElements(elements) ==
    [i \in 1..Len(elements) |->
        LET r == elements[i] IN
        CASE r.kind = "Tag" ->
               Tag(r.name, r.attributes, AsElements(r.children), r.void)
          [] r.kind = "Text" -> Text(r.text)
          [] r.kind = "Raw" -> Raw(r.html)]

\* C9: normalising the document's children, re-expressed as Elements, gives
\* the document's children again.
C9_FromElementsIdempotent ==
    Made => from_elements(AsElements(doc)) = doc

\* A tree in which normalisation dropped and spliced nodes, and kept a text
\* of two newlines, has been normalised.
C9_Witness ==
    /\ pc = "document"
    /\ doc # AsElements(doc)
    /\ NodeCount(doc) < NodeCount(input)
    /\ \E n \in AllNodes(doc) : n.kind = "Text" /\ n.text = <<NL, NL>>

----------------------------------------------------------------------------
(* C10: collecting children. *)

\* What C10 says of the element r made of the list l, Fragment and Empty
\* being the variants of r's own enum.
Collected(r, l, empty) ==
    /\ l = <<>> => r = empty
    /\ Len(l) = 1 => r = l[1]
    /\ Len(l) >= 2 => r.kind = "Fragment" /\ r.children = l /\ r.ty = empty.ty

\* C10: for every list of elements the caller can pass (the last k elements
\* built; any list of owned elements), Element::from_iter, the array
\* IntoElement impl and OwnedElement::from give Empty for the empty list, the
\* element itself for a list of one, and a Fragment of exactly the list, in
\* order, otherwise.
C10_FromIterCollects ==
    /\ \A k \in 0..Len(pool) :
          /\ Collected(from_iter(LastK(pool, k)), LastK(pool, k), Empty)
          /\ Collected(array_into_element(LastK(pool, k)), LastK(pool, k), Empty)
    /\ \A children \in OwnedLists :
          Collected(owned_from_vec(children), children, OwnedEmpty)

\* The caller has collected two elements into a Fragment, which collecting
\* it alone leaves as it is.
C10_Witness ==
    /\ pc = "build"
    /\ pool = <<Fragment(<<Text(src), Empty>>)>>
    /\ from_iter(pool) = pool[1]

----------------------------------------------------------------------------
(* C2, C3, C8: indentation. *)

\* A newline followed by depth two-space indents.
NewlineAndIndents(depth) == <<NL>> \o [j \in 1..(2 * depth) |-> SP]

\* The condition C2 gives for the i-th child of a list written at depth to be
\* preceded by a newline and indents.
PrecededByIndent(list, i, depth) ==
    /\ depth > 0
    /\ list[i].kind # "Text"
    /\ list[i].kind # "Raw"
    /\ ~(list[i].kind = "Tag" /\ list[i].name \in InlineTags)
    /\ \A j \in 1..(i - 1) : list[j].kind # "Text"

\* What write_many has written once it has written the first i elements.
WrittenUpTo(list, i, depth) == write_many(SubSeq(list, 1, i), depth)

\* C2: in every sibling list of the written document, what write_many writes
\* for a child is the child's own output, preceded by a newline and depth
\* indents exactly when depth > 0, the child is no Text, no Raw and no inline
\* tag, and no Text comes before it in the list; otherwise by nothing.  At
\* depth 0 the output is the children's outputs one after another.
C2_WriteManyIndents ==
    Written =>
      /\ \A ld \in ListsAt(doc, 0) :
            LET list == ld[1]
                depth == ld[2]
            IN  \A i \in 1..Len(list) :
                   WrittenUpTo(list, i - 1, depth).res = "Ok" =>
                     WrittenUpTo(list, i, depth).out =
                        WrittenUpTo(list, i - 1, depth).out
                        \o (IF PrecededByIndent(list, i, depth)
                            THEN NewlineAndIndents(depth) ELSE <<>>)
                        \o write(list[i], depth).out
      /\ outcome = "Ok" =>
            writer = Concat([i \in 1..Len(doc) |-> write(doc[i], 0).out])

\* A div holding a text and then a div has been written: the text keeps the
\* inner div on the same line.
C2_Witness ==
    /\ Written
    /\ doc = <<RenderTag(div, <<>>,
                         <<RenderText(src), RenderTag(div, <<>>, <<>>, FALSE)>>,
                         FALSE)>>
    /\ writer = <<LT>> \o div \o <<GT>> \o src
                \o <<LT>> \o div \o <<GT, LT, "/">> \o div \o <<GT>>
                \o <<LT, "/">> \o div \o <<GT>>

\* C3: a non-void tag written at depth d is its start tag, its children's
\* output and its end tag, the end tag preceded by a newline and d indents if
\* and only if one of the children was preceded by an indentation newline.
C3_EndTagIndented ==
    Written =>
      \A nd \in NodesAt(doc, 0) :
         LET n == nd[1]
             d == nd[2]
         IN  (n.kind = "Tag" /\ ~n.void /\ write(n, d).res = "Ok") =>
               write(n, d).out =
                  StartTag(n.name, n.attributes)
                  \o write_many(n.children, d + 1).out
                  \o (IF \E i \in 1..Len(n.children) :
                            PrecededByIndent(n.children, i, d + 1)
                      THEN NewlineAndIndents(d) ELSE <<>>)
                  \o <<LT, "/">> \o n.name \o <<GT>>

\* A div of two divs has been written: each child on a line of its own,
\* indented by two spaces, and the end tag on a line of its own.
C3_Witness ==
    /\ Written
    /\ outcome = "Ok"
    /\ writer = <<LT>> \o div \o <<GT>>
                \o <<NL, SP, SP, LT>> \o div \o <<GT, LT, "/">> \o div \o <<GT>>
                \o <<NL, SP, SP, LT>> \o div \o <<GT, LT, "/">> \o div \o <<GT>>
                \o <<NL, LT, "/">> \o div \o <<GT>>

\* C8: a Raw node's html is written as it is stored, where the node stands
\* among its siblings, with nothing written before it, at every depth.
C8_RawVerbatim ==
    Written =>
      \A ld \in ListsAt(doc, 0) :
         LET list == ld[1]
             depth == ld[2]
         IN  \A i \in 1..Len(list) :
                (list[i].kind = "Raw"
                 /\ WrittenUpTo(list, i - 1, depth).res = "Ok") =>
                   /\ WrittenUpTo(list, i, depth).res = "Ok"
                   /\ WrittenUpTo(list, i, depth).out =
                         WrittenUpTo(list, i - 1, depth).out \o list[i].html

\* A div holding a Raw node alone has been written, the html (with "<", a
\* newline and "&") as it is and on the line of the start tag.
C8_Witness ==
    /\ Written
    /\ doc = <<RenderTag(div, <<>>, <<RenderRaw(<<LT, NL, AMP>>)>>, FALSE)>>
    /\ writer = <<LT>> \o div \o <<GT>> \o <<LT, NL, AMP>>
                \o <<LT, "/">> \o div \o <<GT>>

----------------------------------------------------------------------------
(* C5: a void tag with children. *)

RECURSIVE Vanishes(_)
\* The element gives no node when normalised.
Vanishes(e) ==
    \/ e.kind = "Empty"
    \/ e.kind = "Text" /\ e.text = <<NL>>
    \/ e.kind = "Fragment"
       /\ \A i \in 1..Len(e.children) : Vanishes(e.children[i])

\* A void tag with a non-empty child list.
VoidWithChildren(n) == n.kind = "Tag" /\ n.void /\ n.children # <<>>

\* C5 as it is stated: whenever the elements given hold a void tag with a
\* non-empty child list, at any depth, writing the document fails with
\* InvalidInput.
C5_VoidWithChildrenAlwaysFails ==
    (Written /\ \E n \in AllNodes(input) : VoidWithChildren(n))
      => outcome = "InvalidInput"

\* C5, amended: no step before the write reports InvalidInput, whatever void
\* tags with children have been built, evaluated or normalised; the write
\* ends with InvalidInput exactly when some void tag of the document, at any
\* depth, still has a child after normalisation, that is when some void tag
\* given has a child that does not normalise away; otherwise it ends Ok.
C5_VoidChildrenFailAtWrite ==
    /\ outcome = "InvalidInput" => Written
    /\ Written =>
         /\ outcome \in {"Ok", "InvalidInput"}
         /\ outcome = "InvalidInput"
              <=> \E n \in AllNodes(doc) : VoidWithChildren(n)
         /\ outcome = "InvalidInput"
              <=> \E n \in AllNodes(input) :
                     /\ VoidWithChildren(n)
                     /\ \E i \in 1..Len(n.children) : ~Vanishes(n.children[i])

\* A void tag holding a text, itself inside a div, was built and normalised
\* without error, and the write of the document has failed.
C5_Witness ==
    /\ Written
    /\ input = <<Tag(div, <<>>, <<Tag(anchor, <<>>, <<Text(src)>>, TRUE)>>, FALSE)>>
    /\ doc = <<RenderTag(div, <<>>,
                         <<RenderTag(anchor, <<>>, <<RenderText(src)>>, TRUE)>>,
                         FALSE)>>
    /\ outcome = "InvalidInput"

----------------------------------------------------------------------------
(* C4, C6: the start tag and its attributes. *)

RECURSIVE AttributesAsClaimed(_)
\* The attributes as C4 has them written: in list order, each a space and
\* the key, followed by ="escaped-value" when it has a value.
AttributesAsClaimed(attributes) ==
    IF attributes = <<>> THEN <<>>
    ELSE LET a == Head(attributes) IN
         <<SP>> \o a.key
         \o (IF a.value = <<>> THEN <<>>
             ELSE <<"=", QUOT>> \o encode_quoted_attribute(a.value[1])
                  \o <<QUOT>>)
         \o AttributesAsClaimed(Tail(attributes))

\* C4: every tag of the written document is written as "<name", its
\* attributes in list order (key="escaped-value", or the bare key) and ">";
\* a void tag without children is written as that alone, a non-void tag
\* without children as that and "</name>".
C4_StartTagWritten ==
    Written =>
      \A nd \in NodesAt(doc, 0) :
         LET n == nd[1]
             w == write(n, nd[2])
             start == <<LT>> \o n.name \o AttributesAsClaimed(n.attributes)
                      \o <<GT>>
         IN  n.kind = "Tag" =>
               /\ SubSeq(w.out, 1, Len(start)) = start
               /\ (n.void /\ n.children = <<>>) =>
                     w.res = "Ok" /\ w.out = start
               /\ (~n.void /\ n.children = <<>>) =>
                     /\ w.res = "Ok"
                     /\ w.out = start \o <<LT, "/">> \o n.name \o <<GT>>

\* A void div and a non-void div, both with a valueless attribute and one
\* with a value and neither with children, have been written.
C4_Witness ==
    /\ Written
    /\ src = <<"a">>
    /\ writer = <<LT>> \o div \o <<SP>> \o hidden \o <<SP>> \o id
                \o <<"=", QUOT, "a", QUOT, GT>>
                \o <<LT>> \o div \o <<SP>> \o hidden \o <<SP>> \o id
                \o <<"=", QUOT, "a", QUOT, GT>>
                \o <<LT, "/">> \o div \o <<GT>>

\* The entities an escaped attribute value may hold.
Entities ==
    {<<"&", "a", "m", "p", ";">>, <<"&", "l", "t", ";">>,
     <<"&", "g", "t", ";">>, <<"&", "q", "u", "o", "t", ";">>,
     <<"&", "#", "x", "2", "7", ";">>}

\* An entity starts at the i-th character of s.
EntityAt(s, i) ==
    \E e \in Entities :
       i + Len(e) - 1 <= Len(s) /\ SubSeq(s, i, i + Len(e) - 1) = e

\* C6: every attribute with a value is written as a space, the key, =" and
\* a closing ", with between the two quotes no raw double quote, "<" or ">"
\* and no "&" that does not start an entity; a valueless attribute is
\* written as a space and the bare key.
C6_AttributeValueEscaped ==
    Written =>
      \A nd \in NodesAt(doc, 0) :
         nd[1].kind = "Tag" =>
           \A k \in 1..Len(nd[1].attributes) :
              LET a == nd[1].attributes[k]
                  o == WriteAttribute(a)
                  open == <<SP>> \o a.key \o <<"=", QUOT>>
                  between == SubSeq(o, Len(open) + 1, Len(o) - 1)
              IN  IF a.value = <<>>
                  THEN o = <<SP>> \o a.key
                  ELSE /\ Len(o) >= Len(open) + 1
                       /\ SubSeq(o, 1, Len(open)) = open
                       /\ o[Len(o)] = QUOT
                       /\ \A i \in 1..Len(between) :
                             /\ between[i] \notin {QUOT, LT, GT}
                             /\ between[i] = AMP => EntityAt(between, i)

\* A void div whose attribute value is a double quote followed by "<" has
\* been written.
C6_Witness ==
    /\ Written
    /\ src = <<QUOT, LT>>
    /\ writer = <<LT>> \o div \o <<SP>> \o hidden \o <<SP>> \o id
                \o <<"=", QUOT>>
                \o <<"&", "q", "u", "o", "t", ";", "&", "l", "t", ";">>
                \o <<QUOT, GT>>

----------------------------------------------------------------------------
(* C7: text. *)

\* The positions of the newlines of s, and the k-th of them.
Breaks(s) == {i \in 1..Len(s) : s[i] = NL}
Break(s, k) ==
    CHOOSE b \in Breaks(s) : Cardinality({x \in Breaks(s) : x <= b}) = k

\* The lines of s: what lies between its newlines, a "\r" right before a
\* newline left out, and what follows the last newline when it is not empty.
LinesOf(s) ==
    LET n == Cardinality(Breaks(s))
        first(k) == IF k = 1 THEN 1 ELSE Break(s, k - 1) + 1
        ended(k) ==
            LET last == Break(s, k) - 1 IN
            IF last >= first(k) /\ s[last] = CR
            THEN SubSeq(s, first(k), last - 1)
            ELSE SubSeq(s, first(k), last)
        rest == SubSeq(s, first(n + 1), Len(s))
    IN  [k \in 1..n |-> ended(k)] \o (IF rest = <<>> THEN <<>> ELSE <<rest>>)

RECURSIVE JoinedByNewlines(_)
\* The lines joined by single newlines.
JoinedByNewlines(ls) ==
    IF ls = <<>> THEN <<>>
    ELSE IF Len(ls) = 1 THEN ls[1]
    ELSE ls[1] \o <<NL>> \o JoinedByNewlines(Tail(ls))

\* C7: every Text node of the written document, at whatever depth, is
\* written as the lines of its body-escaped text joined by single newlines:
\* the output holds no raw "<" or ">" and no "&" of the text that is not
\* written as an entity, and nothing follows a newline but the next line.
C7_TextWrittenAsLines ==
    Written =>
      \A nd \in NodesAt(doc, 0) :
         LET n == nd[1]
             w == write(n, nd[2])
         IN  n.kind = "Text" =>
               /\ w.res = "Ok"
               /\ w.out = JoinedByNewlines(LinesOf(encode_text(n.text)))
               /\ \A i \in 1..Len(w.out) :
                     /\ w.out[i] \notin {LT, GT}
                     /\ w.out[i] = AMP => EntityAt(w.out, i)

\* A div holding the text of a newline followed by "<" has been written: the
\* escaped "<" follows the newline directly, at depth 1.
C7_Witness ==
    /\ Written
    /\ src = <<NL, LT>>
    /\ doc = <<RenderTag(div, <<>>, <<RenderText(src)>>, FALSE)>>
    /\ writer = <<LT>> \o div \o <<GT>>
                \o <<NL, "&", "l", "t", ";">>
                \o <<LT, "/">> \o div \o <<GT>>

----------------------------------------------------------------------------
(* The attribute parser's claims. *)

\* The attribute string has been parsed.
AttrParsed == pc = "parsed"

RECURSIVE SplitAt(_, _, _, _)
\* The pieces of s between the occurrences of the character sep.
SplitAt(s, sep, i, cur) ==
    IF i > Len(s) THEN <<cur>>
    ELSE IF s[i] = sep THEN <<cur>> \o SplitAt(s, sep, i + 1, <<>>)
    ELSE SplitAt(s, sep, i + 1, Append(cur, s[i]))

\* Strings made of the characters of set only.
IsOver(s, set) == \A i \in 1..Len(s) : s[i] \in set
Letters == {"a", EACUTE}

\* The position of the first '=' of a token, or 0.
FirstEquals(t) ==
    IF \E i \in 1..Len(t) : t[i] = EQ
    THEN CHOOSE i \in 1..Len(t) : t[i] = EQ /\ \A j \in 1..(i - 1) : t[j] # EQ
    ELSE 0

\* The name of a token and what follows its '='.
TokenName(t) ==
    IF FirstEquals(t) = 0 THEN t ELSE SubSeq(t, 1, FirstEquals(t) - 1)
TokenRest(t) == SubSeq(t, FirstEquals(t) + 1, Len(t))

\* A value written between two quote characters q, with no q inside.
IsQuotedWith(r, q) ==
    /\ Len(r) >= 2
    /\ r[1] = q
    /\ r[Len(r)] = q
    /\ \A i \in 2..(Len(r) - 1) : r[i] # q

\* A token of the plain grammar: name, name=value, name="value" or
\* name='value', the name made of letters and the unquoted value of ASCII
\* letters.
IsPlainToken(t) ==
    /\ TokenName(t) # <<>>
    /\ IsOver(TokenName(t), Letters)
    /\ FirstEquals(t) # 0 =>
          \/ TokenRest(t) # <<>> /\ IsOver(TokenRest(t), {"a"})
          \/ IsQuotedWith(TokenRest(t), QUOT)
          \/ IsQuotedWith(TokenRest(t), APOS)

\* The attribute a plain token stands for.
TokenAttribute(t) ==
    IF FirstEquals(t) = 0 THEN [key |-> t, value |-> <<>>]
    ELSE LET r == TokenRest(t) IN
         [key |-> TokenName(t),
          value |-> IF r[1] \in {QUOT, APOS}
                    THEN <<SubSeq(r, 2, Len(r) - 1)>>
                    ELSE <<r>>]

\* The tokens of the caller's string, separated by single spaces.
SrcTokens == SplitAt(src, SP, 1, <<>>)

\* C11: when the attribute string is plain tokens separated by single
\* spaces, parse_from_str returns one attribute per token, in the order of
\* the tokens, each with its own value, also when a key occurs again.
C11_AttributesInInputOrder ==
    (AttrParsed /\ \A i \in 1..Len(SrcTokens) : IsPlainToken(SrcTokens[i])) =>
        /\ parsed.res = "Ok"
        /\ parsed.val = [i \in 1..Len(SrcTokens) |-> TokenAttribute(SrcTokens[i])]

\* The string a=a a has been parsed into two attributes of key a, the first
\* with the value a and the second without a value.
C11_Witness ==
    /\ AttrParsed
    /\ src = <<"a", EQ, "a", SP, "a">>
    /\ parsed.res = "Ok"
    /\ Len(parsed.val) = 2
    /\ parsed.val[1].key = parsed.val[2].key
    /\ parsed.val[1].value # parsed.val[2].value

\* The character at position pos (0-based) opens a quoted value: the input
\* cut right after it is a quoted value just opened there.
OpensQuoteAt(pos) ==
    /\ src[pos + 1] \in {QUOT, APOS}
    /\ parse_from_str(SubSeq(src, 1, pos + 1))
           = UnclosedQuote(src[pos + 1], pos, <<>>)

\* The quote opened at position pos (0-based) is not closed before the end
\* of the input.
StaysOpenFrom(pos) == \A i \in (pos + 2)..Len(src) : src[i] # src[pos + 1]

\* C12: parse_from_str returns UnclosedQuote exactly when the input ends
\* inside a quoted value, and the error carries the opening quote, its
\* character index and every character after it.
C12_UnclosedQuoteAtEndOfInput ==
    AttrParsed =>
        /\ parsed.res = "UnclosedQuote" <=>
               \E pos \in 0..(Len(src) - 1) :
                   OpensQuoteAt(pos) /\ StaysOpenFrom(pos)
        /\ parsed.res = "UnclosedQuote" =>
               /\ parsed.position \in 0..(Len(src) - 1)
               /\ parsed.quote \in {QUOT, APOS}
               /\ parsed.quote = src[parsed.position + 1]
               /\ OpensQuoteAt(parsed.position)
               /\ parsed.partial_value
                      = SubSeq(src, parsed.position + 2, Len(src))

\* The string a="a' has been parsed: the double quote at index 2 is still
\* open at the end, with a and the single quote after it.
C12_Witness ==
    /\ AttrParsed
    /\ src = <<"a", EQ, QUOT, "a", APOS>>
    /\ parsed = UnclosedQuote(QUOT, 2, <<"a", APOS>>)

\* The characters the claims allow in an unquoted value.
AsciiValueChars == AsciiLower \cup AsciiUpper \cup AsciiDigits \cup {HYPHEN, UNDERSCORE}

\* The caller's string begins name=v, name made of letters and v of len
\* characters an unquoted value may hold.
BeginsUnquotedValue(name_len, len) ==
    /\ name_len >= 1
    /\ name_len + 1 + len <= Len(src)
    /\ IsOver(SubSeq(src, 1, name_len), Letters)
    /\ src[name_len + 1] = EQ
    /\ IsOver(SubSeq(src, name_len + 2, name_len + 1 + len), AsciiValueChars)

\* C13: in an unquoted value, a character that is not an ASCII letter, an
\* ASCII digit, '-' or '_' (nor the whitespace that ends the value, nor a
\* quote that opens a quoted value instead) is refused with InvalidSyntax,
\* naming the character, its index and ExpectedQuoteOrValue.
C13_UnquotedValueAsciiOnly ==
    AttrParsed =>
        \A name_len \in 1..Len(src), len \in 0..Len(src) :
            LET pos == name_len + 1 + len IN
            (/\ BeginsUnquotedValue(name_len, len)
             /\ pos < Len(src)
             /\ src[pos + 1] \notin AsciiValueChars
             /\ ~IsAttributeSpace(src[pos + 1])
             /\ len = 0 => src[pos + 1] \notin {QUOT, APOS})
            => parsed = InvalidSyntax(src[pos + 1], pos, "ExpectedQuoteOrValue")

\* C14: an InvalidSyntax with context ExpectedAttributeValue never reports
\* a '=' or a whitespace character.
C14_ExpectedValueNotWhitespace ==
    (AttrParsed /\ parsed.res = "InvalidSyntax"
                /\ parsed.context = "ExpectedAttributeValue") =>
        /\ parsed.unexpected # EQ
        /\ ~is_whitespace(parsed.unexpected)

\* The caller's string begins with a name of name_len letters and then
\* spaces more spaces.
BeginsNameAndSpaces(name_len, spaces) ==
    /\ name_len >= 1
    /\ spaces >= 1
    /\ name_len + spaces <= Len(src)
    /\ IsOver(SubSeq(src, 1, name_len), Letters)
    /\ IsOver(SubSeq(src, name_len + 1, name_len + spaces), {SP})

\* A value as it is written: unquoted, or between quotes.
IsPlainValue(r) ==
    \/ r # <<>> /\ IsOver(r, {"a"})
    \/ IsQuotedWith(r, QUOT)
    \/ IsQuotedWith(r, APOS)
PlainValue(r) == IF r[1] \in {QUOT, APOS} THEN SubSeq(r, 2, Len(r) - 1) ELSE r

\* C15: after a name and spaces, a '=' (and perhaps spaces) and a value give
\* one attribute with that value; anything else, or the end of the input,
\* gives a valueless attribute followed by what the rest of the input parses
\* to.
C15_SpacesAfterName ==
    AttrParsed =>
        \A name_len \in 1..Len(src), spaces \in 1..Len(src) :
            BeginsNameAndSpaces(name_len, spaces) =>
                LET name == SubSeq(src, 1, name_len)
                    next == name_len + spaces + 1
                    rest == SubSeq(src, next, Len(src))
                IN  IF rest # <<>> /\ rest[1] = SP THEN TRUE
                    ELSE IF rest # <<>> /\ rest[1] = EQ
                    THEN \A after \in 0..(Len(rest) - 1) :
                           LET value == SubSeq(rest, 2 + after, Len(rest)) IN
                           (/\ IsOver(SubSeq(rest, 2, 1 + after), {SP})
                            /\ IsPlainValue(value))
                           => parsed = ParsedAttributes(
                                  <<Attribute(name, <<PlainValue(value)>>)>>)
                    ELSE LET following == parse_from_str(rest) IN
                         following.res = "Ok" =>
                             parsed = ParsedAttributes(
                                  <<Attribute(name, <<>>)>> \o following.val)

\* The first len characters of the caller's string without the spaces at
\* their end.
WithoutSpacesAtEnd(len) ==
    LET last == IF \E i \in 1..len : src[i] # SP
                THEN CHOOSE i \in 1..len :
                         src[i] # SP /\ \A j \in (i + 1)..len : src[j] = SP
                ELSE 0
    IN  SubSeq(src, 1, last)

\* A name is expected at position pos (0-based): nothing but spaces comes
\* before it, or plain tokens separated by single spaces of which the last
\* has a value that is complete (its closing quote, or a space after it).
NameExpectedAt(pos) ==
    LET before == WithoutSpacesAtEnd(pos)
        tokens == SplitAt(before, SP, 1, <<>>)
        last == tokens[Len(tokens)]
    IN  \/ before = <<>>
        \/ /\ \A i \in 1..Len(tokens) : IsPlainToken(tokens[i])
           /\ FirstEquals(last) # 0
           /\ \/ TokenRest(last)[1] \in {QUOT, APOS}
              \/ Len(before) < pos

\* C16: a '=' where an attribute name is expected is refused with
\* InvalidSyntax, naming '=', its index and ExpectedAttributeName.
C16_EqualsWhereNameExpected ==
    AttrParsed =>
        \A pos \in 0..(Len(src) - 1) :
            (src[pos + 1] = EQ /\ NameExpectedAt(pos)) =>
                parsed = InvalidSyntax(EQ, pos, "ExpectedAttributeName")

\* The string a=''= has been parsed: its second '=' comes directly after a
\* complete attribute and is refused.
C16_Witness ==
    /\ AttrParsed
    /\ src = <<"a", EQ, APOS, APOS, EQ>>
    /\ NameExpectedAt(4)
    /\ parsed = InvalidSyntax(EQ, 4, "ExpectedAttributeName")

\* An attribute written back as key="value", or as the bare key.
AttributeWrittenBack(attribute) ==
    IF attribute.value = <<>> THEN attribute.key
    ELSE attribute.key \o <<EQ, QUOT>> \o attribute.value[1] \o <<QUOT>>

RECURSIVE WrittenBack(_)
\* Attributes written back, separated by single spaces.
WrittenBack(attributes) ==
    IF attributes = <<>> THEN <<>>
    ELSE IF Len(attributes) = 1 THEN AttributeWrittenBack(attributes[1])
    ELSE AttributeWrittenBack(attributes[1]) \o <<SP>>
             \o WrittenBack(Tail(attributes))

\* C17 as claimed: whatever parse_from_str returns, written back and parsed
\* again, is returned again.
C17_WrittenBackParsesTheSame ==
    (AttrParsed /\ parsed.res = "Ok") =>
        parse_from_str(WrittenBack(parsed.val)) = parsed

\* No value of the attributes holds a double quote.
NoDoubleQuoteIn(attributes) ==
    \A i \in 1..Len(attributes) :
        attributes[i].value # <<>> =>
            \A j \in 1..Len(attributes[i].value[1]) :
                attributes[i].value[1][j] # QUOT

\* C17, amended: when no returned value holds a double quote, the returned
\* attributes written back and parsed again are returned again, in the same
\* order and with the same values.
C17_WrittenBackWithoutQuoteParsesTheSame ==
    (AttrParsed /\ parsed.res = "Ok" /\ NoDoubleQuoteIn(parsed.val)) =>
        parse_from_str(WrittenBack(parsed.val)) = parsed

\* The string a='' a has been parsed into a with the empty value and a
\* second, valueless a; written back it is another string, a="" a.
C17_Witness ==
    /\ AttrParsed
    /\ src = <<"a", EQ, APOS, APOS, SP, "a">>
    /\ parsed = ParsedAttributes(<<Attribute(<<"a">>, <<<<>>>>),
                                   Attribute(<<"a">>, <<>>)>>)
    /\ WrittenBack(parsed.val) = <<"a", EQ, QUOT, QUOT, SP, "a">>
    /\ WrittenBack(parsed.val) # src

----------------------------------------------------------------------------
(* The markup parser's claims. *)

\* The markup has been parsed into an AST.
AstParsed == pc # "parse" /\ parsed.res = "Ok"

\* C18: every attribute of every element that runtime parsing returns has a
\* non-empty key.
C18_ParsedKeysNonEmpty ==
    \A element \in AllNodes(pool) :
        element.kind = "Tag" =>
            \A i \in 1..Len(element.attributes) :
                element.attributes[i].key # <<>>

RECURSIVE AstNodes(_)
\* Every node of an AST.
AstNodes(node) ==
    {node} \cup
        (IF node.kind \in {"Element", "Fragment"}
         THEN UNION {AstNodes(node.children[i]) : i \in 1..Len(node.children)}
         ELSE {})

\* The caller's markup without its whitespace.
SrcWithoutSpaces == SelectSeq(src, LAMBDA c : ~is_whitespace(c))

\* The places of the markup without whitespace where a start tag is closed
\* by "/>": a '/' and a '>' that do not follow a '<'.
SelfClosings ==
    LET s == SrcWithoutSpaces IN
    {i \in 2..(Len(s) - 1) : s[i] = SLASH /\ s[i + 1] = GT /\ s[i - 1] # LT}

\* The markup ends with "/>", whitespace aside.
EndsSelfClosed ==
    LET s == SrcWithoutSpaces IN
    Len(s) >= 3 /\ (Len(s) - 1) \in SelfClosings

\* The markup ends with the closing tag of name, whitespace aside.
EndsWithClosingTag(name) ==
    LET s == SrcWithoutSpaces
        closing == <<LT, SLASH>> \o name \o <<GT>>
    IN  /\ Len(s) >= Len(closing)
        /\ SubSeq(s, Len(s) - Len(closing) + 1, Len(s)) = closing

\* The elements of an AST, and its texts.
AstElements(node) == {n \in AstNodes(node) : n.kind = "Element"}
AstTexts(node) == {n \in AstNodes(node) : n.kind = "Text"}

RECURSIVE VoidElementsOfList(_)
RECURSIVE VoidElements(_)
\* How many elements of an AST are void.
VoidElements(node) ==
    IF node.kind = "Element"
    THEN (IF node.void THEN 1 ELSE 0) + VoidElementsOfList(node.children)
    ELSE IF node.kind = "Fragment" THEN VoidElementsOfList(node.children)
    ELSE 0

\* How many elements of a list of ASTs are void.
VoidElementsOfList(nodes) ==
    IF nodes = <<>> THEN 0
    ELSE VoidElements(Head(nodes)) + VoidElementsOfList(Tail(nodes))

\* C19: the root element is void exactly when its tag is written "/>", and
\* not void exactly when the markup ends with its closing tag, whatever its
\* name; a void element has no children; and in markup without text there
\* are as many void elements as tags written "/>".
C19_VoidBySyntax ==
    AstParsed =>
        /\ \A n \in AstElements(parsed.val) : n.void => n.children = <<>>
        /\ parsed.val.kind = "Element" =>
               /\ parsed.val.void <=> EndsSelfClosed
               /\ ~parsed.val.void <=> EndsWithClosingTag(parsed.val.name)
        /\ AstTexts(parsed.val) = {} =>
               Cardinality(SelfClosings) = VoidElements(parsed.val)

\* The markup <a _/>, of a name that is no void element of HTML, has been
\* parsed into a void element without children.
C19_Witness ==
    /\ AstParsed
    /\ src = <<LT, "a", SP, UNDERSCORE, SLASH, GT>>
    /\ parsed.val.kind = "Element"
    /\ parsed.val.name = <<"a">>
    /\ parsed.val.void
    /\ parsed.val.children = <<>>

\* A character a tag name may hold.
IsNameChar(c) == is_alphanumeric(c) \/ c \in {UNDERSCORE, HYPHEN}

RECURSIVE NameFrom(_)
\* The tag name the markup holds from place i on.
NameFrom(i) ==
    IF i <= Len(src) /\ IsNameChar(src[i])
    THEN <<src[i]>> \o NameFrom(i + 1)
    ELSE <<>>

RECURSIVE AfterSpaces(_)
\* The first place from i on that holds no whitespace.
AfterSpaces(i) ==
    IF i <= Len(src) /\ is_whitespace(src[i]) THEN AfterSpaces(i + 1) ELSE i

\* The tag that opens at the '<' of place i is written "/>": the first '>'
\* after it follows a '/', whitespace aside.
IsSelfClosedAt(i) ==
    \E j \in (i + 1)..Len(src) :
        /\ src[j] = GT
        /\ \A k \in (i + 1)..(j - 1) : src[k] # GT
        /\ \E k \in (i + 1)..(j - 1) :
               /\ src[k] = SLASH
               /\ \A m \in (k + 1)..(j - 1) : is_whitespace(src[m])

\* What the tag at the '<' of place i opens or closes: no name for a
\* fragment, one name for an element.
TagOf(i) ==
    IF i < Len(src) /\ src[i + 1] = SLASH
    THEN LET name == NameFrom(AfterSpaces(i + 2)) IN
         IF name = <<>> THEN <<>> ELSE <<name>>
    ELSE IF i < Len(src) /\ src[i + 1] = GT THEN <<>>
    ELSE <<NameFrom(i + 1)>>

RECURSIVE TagsMatchFrom(_, _)
\* From place i on, with the tags in open still to be closed (the innermost
\* last), every closing tag of the markup closes the innermost open tag and
\* is written as it is: by the same name, or by no name for a fragment.
TagsMatchFrom(i, open) ==
    IF i > Len(src) THEN TRUE
    ELSE IF src[i] # LT THEN TagsMatchFrom(i + 1, open)
    ELSE IF i < Len(src) /\ src[i + 1] = SLASH
    THEN /\ open # <<>>
         /\ open[Len(open)] = TagOf(i)
         /\ TagsMatchFrom(i + 1, SubSeq(open, 1, Len(open) - 1))
    ELSE IF TagOf(i) # <<>> /\ IsSelfClosedAt(i)
    THEN TagsMatchFrom(i + 1, open)
    ELSE TagsMatchFrom(i + 1, Append(open, TagOf(i)))

\* The runtime entry point has been given the markup and has returned.
RuntimeParsed == pc # "parse" /\ parsed = NotParsed

\* C20: an AST is returned only when every closing tag of the markup closes
\* the innermost open tag by exactly its name, "</>" closing fragments
\* only; otherwise the parse fails with a ParseError, and the runtime entry
\* point returns its Parse error and no element.
C20_ClosingTagMatchesExactly ==
    ~TagsMatchFrom(1, <<>>) =>
        /\ pc # "parse" /\ parsed # NotParsed => parsed.res = "ParseError"
        /\ RuntimeParsed => pc = "failed" /\ outcome = "Parse" /\ pool = <<>>

\* The markup <a></A>, whose closing tag differs from the opening one in
\* case only, has been refused.
C20_Witness ==
    /\ src = <<LT, "a", GT, LT, SLASH, "A", GT>>
    /\ ~TagsMatchFrom(1, <<>>)
    /\ parsed.res = "ParseError"
    /\ pc = "failed"

RECURSIVE OpenTagsFrom(_, _)
\* The tags still open at the end of the markup, read from place i on with
\* the tags in open still to be closed: a closing tag closes the innermost.
OpenTagsFrom(i, open) ==
    IF i > Len(src) THEN open
    ELSE IF src[i] # LT THEN OpenTagsFrom(i + 1, open)
    ELSE IF i < Len(src) /\ src[i + 1] = SLASH
    THEN OpenTagsFrom(i + 1, SubSeq(open, 1, Len(open) - 1))
    ELSE IF TagOf(i) # <<>> /\ IsSelfClosedAt(i)
    THEN OpenTagsFrom(i + 1, open)
    ELSE OpenTagsFrom(i + 1, Append(open, TagOf(i)))

\* C21: markup whose input ends while an element or a fragment is still
\* open does not parse: an AST is returned only when no tag is left open.
C21_UnclosedAtEndOfInputIsAnError ==
    AstParsed => OpenTagsFrom(1, <<>>) = <<>>

\* The same of elements alone: an AST is returned only when no element is
\* left open.
UnclosedElementIsAnError ==
    AstParsed => \A i \in 1..Len(OpenTagsFrom(1, <<>>)) :
                     OpenTagsFrom(1, <<>>)[i] = <<>>

\* C28: no element the library assembles holds a Fragment of fewer than two
\* children.
C28_NoFragmentOfFewerThanTwo ==
    \A element \in AllNodes(pool) :
        element.kind = "Fragment" => Len(element.children) >= 2

----------------------------------------------------------------------------
(* The runtime parser's claims. *)

\* The parser has returned, with an AST or with a ParseError.
ParserReturned == pc # "parse" /\ parsed # NotParsed

\* The position after the first node of the markup, found without the
\* parser when the markup begins with a void element of no attributes, an
\* element of no attributes and no children, or a text: <p/>, <p></p>, or
\* what begins with a quote and runs up to the next '<' or '{'.
RootEnds ==
    {i \in 1..Len(src) :
        \/ SubSeq(src, 1, i) = <<LT, "p", SLASH, GT>>
        \/ SubSeq(src, 1, i) = <<LT, "p", GT, LT, SLASH, "p", GT>>
        \/ /\ src[1] = QUOT
           /\ \A k \in 1..i : src[k] \notin {LT, LBRACE}
           /\ i < Len(src) => src[i + 1] \in {LT, LBRACE}}

\* What follows the first node of the markup.
AfterRoot(i) == SubSeq(src, i + 1, Len(src))

\* C22: the parser succeeds only if nothing but whitespace follows the root
\* node, and returns a ParseError when anything else does.
C22_OnlyWhitespaceAfterRoot ==
    ParserReturned =>
        \A i \in RootEnds :
            parsed.res = "Ok"
                <=> \A k \in 1..Len(AfterRoot(i)) : is_whitespace(AfterRoot(i)[k])

\* The root <p/> is followed by an interpolation, and the parse has failed.
C22_Witness ==
    /\ ParserReturned
    /\ src = <<LT, "p", SLASH, GT, LBRACE, "x", RBRACE>>
    /\ parsed.res = "ParseError"
    /\ parsed.message = <<"Unexpected content after root element">>

\* An interpolation as the markup of the runtime runs writes it, and the
\* iterator interpolation, which is a child only.
Interpolation == <<LBRACE, "x", RBRACE>>
IteratorInterpolation == <<HASH>> \o Interpolation

\* s begins with prefix.
BeginsWith(s, prefix) ==
    Len(s) >= Len(prefix) /\ SubSeq(s, 1, Len(prefix)) = prefix

RECURSIVE ReplaceAll(_, _, _)
\* s with every occurrence of the non-empty string old replaced by new.
ReplaceAll(s, old, new) ==
    IF s = <<>> THEN <<>>
    ELSE IF BeginsWith(s, old)
    THEN new \o ReplaceAll(SubSeq(s, Len(old) + 1, Len(s)), old, new)
    ELSE <<s[1]>> \o ReplaceAll(Tail(s), old, new)

\* The markup holds an interpolation.
HasInterpolation == \E i \in 1..Len(src) : src[i] = LBRACE

\* The markup with a void element z, an attribute z or a string literal "z"
\* where it has its interpolations.
WithChildren ==
    LET child == <<LT, "z", SLASH, GT>> IN
    ReplaceAll(ReplaceAll(src, IteratorInterpolation, child),
               Interpolation, child)
WithAttributes == ReplaceAll(src, Interpolation, <<SP, "z">>)
WithValues == ReplaceAll(src, Interpolation, <<QUOT, "z", QUOT>>)

\* The interpolations of the markup stand where children may: with elements
\* in their place the markup parses, and the elements are in the AST.
InterpolatedChild ==
    LET ast == parser_parse_html(WithChildren) IN
    /\ HasInterpolation
    /\ ast.res = "Ok"
    /\ \E n \in AstElements(ast.val) : n.name = <<"z">>

\* The interpolations of the markup stand where attributes may.
InterpolatedAttribute ==
    LET ast == parser_parse_html(WithAttributes) IN
    /\ HasInterpolation
    /\ ast.res = "Ok"
    /\ \E n \in AstElements(ast.val) : \E i \in 1..Len(n.attributes) :
           n.attributes[i].name = <<"z">>

\* The interpolations of the markup stand where attribute values may.
InterpolatedValue ==
    LET ast == parser_parse_html(WithValues) IN
    /\ HasInterpolation
    /\ ast.res = "Ok"
    /\ \E n \in AstElements(ast.val) : \E i \in 1..Len(n.attributes) :
           n.attributes[i].value = <<AstLiteral(<<"z">>)>>

\* The error of the parser mentions interpolation.
MentionsInterpolation ==
    /\ parsed.res = "ParseError"
    /\ parsed.message
           = <<"Interpolation is not supported in runtime HTML parsing">>

\* C23: markup with an interpolation never gives an AST or an element, and
\* where the interpolation is a child, an attribute or an attribute value
\* the parser's error mentions interpolation.
C23_InterpolationRejected ==
    HasInterpolation =>
        /\ ParserReturned => parsed.res = "ParseError"
        /\ RuntimeParsed => pc = "failed" /\ outcome # "none" /\ pool = <<>>
        /\ ParserReturned
               /\ (InterpolatedChild \/ InterpolatedAttribute \/ InterpolatedValue)
               => MentionsInterpolation

\* The markup <p x1={x}/>, whose attribute has an interpolation for its
\* value, has been refused with the error that mentions interpolation.
C23_Witness ==
    /\ ParserReturned
    /\ src = <<LT, "p", SP, "x", "1", EQ, LBRACE, "x", RBRACE, SLASH, GT>>
    /\ InterpolatedValue
    /\ MentionsInterpolation

\* C24: when the runtime entry point meets an interpolation or an attribute
\* whose value is an expression, its error is of the Eval kind, not of the
\* Parse kind of malformed markup.
C24_InterpolationIsAnEvalError ==
    RuntimeParsed
        /\ (InterpolatedChild \/ InterpolatedAttribute \/ InterpolatedValue)
        => outcome = "Eval"

\* The kebab-case form of a name in camel or kebab case: a hyphen and the
\* small letter for every capital after the first character.
KebabOf(name) ==
    Concat([i \in 1..Len(name) |->
               IF IsUpper(name[i])
               THEN (IF i > 1 THEN <<HYPHEN>> ELSE <<>>) \o <<ToLower(name[i])>>
               ELSE <<name[i]>>])

\* The end of the first tag of the markup: the place of its first '>', or
\* past the markup when it has none.
StartTagEnd ==
    IF \E i \in 1..Len(src) : src[i] = GT
    THEN CHOOSE i \in 1..Len(src) : src[i] = GT /\ \A k \in 1..(i - 1) : src[k] # GT
    ELSE Len(src) + 1

RECURSIVE WrittenNamesFrom(_, _, _, _)
\* The attribute names written in the first tag from place i on, string
\* literals left out: name is the name being read, names the names read.
WrittenNamesFrom(i, quoted, name, names) ==
    LET flushed == IF name = <<>> THEN names ELSE Append(names, name) IN
    IF i >= StartTagEnd THEN flushed
    ELSE IF src[i] = QUOT THEN WrittenNamesFrom(i + 1, ~quoted, <<>>, flushed)
    ELSE IF quoted THEN WrittenNamesFrom(i + 1, quoted, name, names)
    ELSE IF IsNameChar(src[i])
    THEN WrittenNamesFrom(i + 1, quoted, Append(name, src[i]), names)
    ELSE WrittenNamesFrom(i + 1, quoted, <<>>, flushed)

\* The attribute names written in the tag <p ...> the markup begins with.
WrittenNames == WrittenNamesFrom(3, FALSE, <<>>, <<>>)

\* C25: the attributes of the element the markup begins with bear the
\* kebab-case forms of the names as written, in order: myAttr becomes
\* my-attr, and a name in lower-case kebab case is unchanged.
C25_NamesInKebabCase ==
    AstParsed /\ BeginsWith(src, <<LT, "p">>) =>
        [i \in 1..Len(parsed.val.attributes) |-> parsed.val.attributes[i].name]
            = [i \in 1..Len(WrittenNames) |-> KebabOf(WrittenNames[i])]

\* The same of names without digits.
NamesWithoutDigitsInKebabCase ==
    (\A i \in 1..Len(src) : ~IsDigit(src[i])) => C25_NamesInKebabCase

\* The markup is <p>"text"</p>, a p whose child text is written as a string
\* literal, and QuotedText is the literal's content.
OpensQuotedText == <<LT, "p", GT, QUOT>>
ClosesQuotedText == <<QUOT, LT, SLASH, "p", GT>>
QuotedText ==
    SubSeq(src, Len(OpensQuotedText) + 1, Len(src) - Len(ClosesQuotedText))
IsQuotedTextMarkup ==
    /\ Len(src) > Len(OpensQuotedText) + Len(ClosesQuotedText)
    /\ BeginsWith(src, OpensQuotedText)
    /\ SubSeq(src, Len(src) - Len(ClosesQuotedText) + 1, Len(src))
           = ClosesQuotedText
    /\ \A i \in 1..Len(QuotedText) : QuotedText[i] \notin {QUOT, LT, LBRACE}

\* C26: the element parsed from <p>"text"</p> holds the text without the
\* quotes, and its document is written <p>text</p>.
C26_QuotedTextWithoutQuotes ==
    IsQuotedTextMarkup =>
        /\ pc # "failed"
        /\ pc = "build" /\ pool # <<>> =>
               pool = <<Tag(<<"p">>, <<>>, <<Text(QuotedText)>>, FALSE)>>
        /\ Written /\ input # <<>> =>
               writer = <<LT, "p", GT>> \o QuotedText \o <<LT, SLASH, "p", GT>>

\* The markup <p r#c="t"/>: a void p whose attribute c is written with the
\* raw-identifier prefix.
RawIdentifierMarkup ==
    <<LT, "p", SP, "r", HASH, "c", EQ, QUOT, "t", QUOT, SLASH, GT>>

\* C27: <p r#c="t"/> parses to the void tag p with the attribute c="t", and
\* its document is written <p c="t">.
C27_RawIdentifierPrefixDropped ==
    src = RawIdentifierMarkup =>
        /\ pc # "failed"
        /\ pc = "build" /\ pool # <<>> =>
               pool = <<Tag(<<"p">>, <<Attribute(<<"c">>, <<<<"t">>>>)>>,
                            <<>>, TRUE)>>
        /\ Written /\ input # <<>> =>
               writer = <<LT, "p", SP, "c", EQ, QUOT, "t", QUOT, GT>>

----------------------------------------------------------------------------
(* The parsers' progress. *)

\* The positions a parser may be at in the markup.
Positions == 0..Len(src)

\* A parse function that returns at all returns within the input and not
\* before the position it began at, and its errors lie within the input.
Forward(results, pos) ==
    \A result \in results :
        IF result.res = "Ok" THEN result.pos \in pos..Len(src)
        ELSE result.position \in 0..Len(src)

\* A parse function that returns a value has consumed a character.
Consuming(results, pos) ==
    \A result \in results :
        IF result.res = "Ok" THEN result.pos \in (pos + 1)..Len(src)
        ELSE result.position \in 0..Len(src)

\* The markup parser from any position: whitespace skipping and the text
\* loop go forward or stay; an identifier, a string literal, an attribute
\* (the body of the attribute loop) and a node (the body of the children
\* loop) consume at least one character or are errors; the attribute loop
\* and the children loop go forward.
MarkupParserProgresses ==
    \A pos \in Positions :
        /\ skip_whitespace(src, pos) \in pos..Len(src)
        /\ Forward({parse_text(src, pos)}, pos)
        /\ Consuming({expect(src, pos, GT)}, pos)
        /\ Consuming({parse_identifier(src, pos)}, pos)
        /\ Consuming({parse_string_literal(src, pos)}, pos)
        /\ Consuming({parse_attribute(src, pos)}, pos)
        /\ Forward({AttributesLoop(src, pos, <<>>)}, pos)
        /\ Consuming({parse_node(src, pos)}, pos)
        /\ Forward({parse_children(src, pos, <<>>)}, pos)
        /\ Forward({parse_children(src, pos, <<<<"p">>>>)}, pos)

\* The lookahead of the attribute parser from pos on finds a '=' exactly
\* when one follows whitespace only: it stops at the first other character.
LookaheadStops ==
    \A pos \in Positions :
        found_equals(src, pos)
            <=> \E j \in (pos + 1)..Len(src) :
                    /\ src[j] = EQ
                    /\ \A k \in (pos + 1)..(j - 1) : is_whitespace(src[k])

\* The attribute parser's errors name the character of the input they are
\* about, at its position.
AttributeErrorWithinInput ==
    /\ parsed.res = "InvalidSyntax" =>
           /\ parsed.position < Len(src)
           /\ src[parsed.position + 1] = parsed.unexpected
    /\ parsed.res = "UnclosedQuote" =>
           /\ parsed.position < Len(src)
           /\ src[parsed.position + 1] = parsed.quote

\* C29: both parsers return on every markup, the read position never moves
\* backwards, and the body of every parsing loop consumes a character or is
\* an error.
C29_ParsersProgress ==
    /\ ParserReturned /\ pc # "parsed" =>
           /\ parsed.res \in {"Ok", "ParseError"}
           /\ MarkupParserProgresses
    /\ AttrParsed =>
           /\ parsed.res \in {"Ok", "InvalidSyntax", "UnclosedQuote"}
           /\ LookaheadStops
           /\ AttributeErrorWithinInput

\* The markup <p a-b/> has been parsed: the attribute loop and the children
\* loop have run, and the node ends at the end of the input.
C29_Witness ==
    /\ ParserReturned
    /\ pc = "build"
    /\ src = <<LT, "p", SP, "a", HYPHEN, "b", SLASH, GT>>
    /\ parse_node(src, 0).pos = Len(src)
    /\ parse_attribute(src, 3).pos = 6

----------------------------------------------------------------------------
(* What writing a text keeps of it. *)

RECURSIVE UnescapedFrom(_, _)
\* The written text s from its i-th character on, its entities "&amp;",
\* "&lt;" and "&gt;" replaced by "&", "<" and ">".
UnescapedFrom(s, i) ==
    IF i > Len(s) THEN <<>>
    ELSE LET rest == SubSeq(s, i, Len(s)) IN
         IF BeginsWith(rest, EncodeTextChar(AMP))
         THEN <<AMP>> \o UnescapedFrom(s, i + 5)
         ELSE IF BeginsWith(rest, EncodeTextChar(LT))
         THEN <<LT>> \o UnescapedFrom(s, i + 4)
         ELSE IF BeginsWith(rest, EncodeTextChar(GT))
         THEN <<GT>> \o UnescapedFrom(s, i + 4)
         ELSE <<s[i]>> \o UnescapedFrom(s, i + 1)

\* The Text nodes of the written document, each with its depth.
WrittenTexts == {nd \in NodesAt(doc, 0) : nd[1].kind = "Text"}

\* The texts str::lines gives back whole once its lines are joined by "\n":
\* those that end with neither "\n" nor "\r" and hold no "\r\n".
KeptByLines(text) ==
    /\ text # <<>> => text[Len(text)] \notin {NL, CR}
    /\ \A i \in 1..(Len(text) - 1) : ~(text[i] = CR /\ text[i + 1] = NL)

\* C30: every Text node of the written document is written whole: the
\* entities of its output replaced by the characters they stand for, the
\* output is the node's text, whatever the text ends with or holds.
C30_TextWrittenWhole ==
    Written =>
      \A nd \in WrittenTexts :
         UnescapedFrom(write(nd[1], nd[2]).out, 1) = nd[1].text

\* The part that holds: a text that ends with no line ending and holds no
\* "\r\n" is written whole.
TextWithoutLineEndingsWrittenWhole ==
    Written =>
      \A nd \in WrittenTexts :
         KeptByLines(nd[1].text) =>
            UnescapedFrom(write(nd[1], nd[2]).out, 1) = nd[1].text

============================================================================
